---- MODULE Spec2Model ----
(***************************************************************************)
(* Model of the partition resizer: identifier resolution, the space        *)
(* planner (calculateResizes / planResizes) and the resize executor        *)
(* (shrink filesystems, shrink partitions, create, copy, swap, remove).    *)
(*                                                                         *)
(* Sizes are scaled: a logical sector is LogicalSectorSize bytes, MB and   *)
(* GB keep their order (sector <= MB < GB, GB a multiple of MB and of the  *)
(* sector) but are a few bytes each, so that every arithmetic case of the  *)
(* code (rounding up to GB, division by the sector size, division by MB)   *)
(* is reached on small disks.                                              *)
(*                                                                         *)
(* The GPT codec is an external library.  It is modelled by its contract   *)
(* as the code uses it: a row has an Index (slot), a Start in sectors, a   *)
(* Size in bytes, a Type, a Name, a GUID and Attributes; writing a table   *)
(* stores its rows in slot order and gives a row with a blank GUID a fresh *)
(* one; reading a table returns the rows whose type is not Unused, in slot *)
(* order.                                                                  *)
(***************************************************************************)
EXTENDS Integers, Sequences, FiniteSets, TLC

VARIABLES
    gpt,        \* the GPT rows on disk, as written by the last commit
    fsys,       \* slot index -> filesystem held by that slot's bytes
    request,    \* the arguments of Run: grows, shrink, dryRun
    pc,         \* position of the run: "idle", a step name, "done", "failed"
    plan,       \* the resizes computed by planResizes for the current run
    runs,       \* number of times Run was started
    guidCtr,    \* number of partition GUIDs generated so far
    gpt0,       \* history: the table before the first run
    fsys0,      \* history: the filesystems before the first run
    startGpt,   \* history: the table when the current run started
    committed,  \* history: the table written by the last successful commit
    log,        \* history: the steps of the current run that completed
    failedAt,   \* history: the step of the current run that returned an error
    effects,    \* history: mutations of the current run (commits, tool, data)
    interrupted,\* history: the last step done when a run was interrupted
    outcome,    \* what the planner returned last: ok or the error, its fields
    sysBlock,   \* the entries of /sys/class/block that findDisks reads
    allDisks,   \* the result of findDisks: disk name -> partition records
    filteredDisks, \* the result of filterDisksByPartitions: the disk names
    diskSize,   \* the size given to computeUnused
    inBlocks,   \* the list of blocks given to a function of calculate.go
    outBlocks,  \* the list of blocks that function returned
    rawCopy,    \* the raw copy of one partition: both sides and the pipe
    fsShrink    \* the shrink of one ext4 filesystem: the tools and the bytes

\* the state of the disk probe and of the block functions, which a run of
\* the resizer on one image leaves alone
aside == << sysBlock, allDisks, filteredDisks, diskSize, inBlocks, outBlocks,
           rawCopy, fsShrink >>

vars == << gpt, fsys, request, pc, plan, runs, guidCtr, gpt0, startGpt,
           committed, log, failedAt, effects, interrupted,
           outcome, fsys0, sysBlock, allDisks, filteredDisks, diskSize,
           inBlocks, outBlocks, rawCopy, fsShrink >>

\* no raw copy and no filesystem shrink is in progress
NotCopying == [phase |-> "none"]
NotShrinking == [phase |-> "none"]

----------------------------------------------------------------------------
(* Units and bounds *)

LogicalSectorSize == 2
MB == 2
GB == 4

DiskSectors == 9
MaxPartSectors == 5
MaxTarget == 4
MaxRuns == 2

DiskSize == DiskSectors * LogicalSectorSize

\* the block functions are applied to disks of up to this many bytes
BlockBytes == 5
MaxIndex == 3 + 2 * MaxRuns + 2

Unused == "Unused"
LinuxFilesystem == "LinuxFilesystem"
EFISystemPartition == "EFISystemPartition"

alternateLabelSuffix == "_resized2"

getAlternateLabel(original) == original \o alternateLabelSuffix

----------------------------------------------------------------------------
(* GPT rows as the library presents them *)

GetStart(p) == p.Start * LogicalSectorSize
GetSize(p) == p.Size

RECURSIVE InsertByIndex(_, _)
InsertByIndex(p, s) ==
    IF s = << >> THEN << p >>
    ELSE IF p.Index < Head(s).Index THEN << p >> \o s
    ELSE << Head(s) >> \o InsertByIndex(p, Tail(s))

RECURSIVE SortByIndex(_)
SortByIndex(s) ==
    IF s = << >> THEN << >>
    ELSE InsertByIndex(s[Len(s)], SortByIndex(SubSeq(s, 1, Len(s) - 1)))

IsActive(p) == p.Type # Unused

\* d.GetPartitionTable(): the rows in use, in slot order
GetPartitionTable(onDisk) == SelectSeq(onDisk, IsActive)

\* number of rows of a table whose GUID is still blank
BlankCount(table) == Cardinality({i \in 1..Len(table) : table[i].GUID = 0})

\* rank of row i among the rows with a blank GUID
BlankRank(table, i) == Cardinality({j \in 1..i : table[j].GUID = 0})

\* d.Partition(table): what a successful write leaves on disk
WriteTable(table, ctr) ==
    SortByIndex([i \in 1..Len(table) |->
        IF table[i].GUID = 0
        THEN [table[i] EXCEPT !.GUID = 100 + ctr + BlankRank(table, i)]
        ELSE table[i]])

----------------------------------------------------------------------------
(* calculate.go *)

usedBlocks(parts) ==
    [i \in 1..Len(parts) |->
        [start |-> GetStart(parts[i]),
         end   |-> GetSize(parts[i]) + GetStart(parts[i]) - 1]]

RECURSIVE InsertByStart(_, _)
InsertByStart(b, s) ==
    IF s = << >> THEN << b >>
    ELSE IF b.start < Head(s).start THEN << b >> \o s
    ELSE << Head(s) >> \o InsertByStart(b, Tail(s))

RECURSIVE SortByStart(_)
SortByStart(s) ==
    IF s = << >> THEN << >>
    ELSE InsertByStart(s[Len(s)], SortByStart(SubSeq(s, 1, Len(s) - 1)))

RECURSIVE computeUnusedFrom(_, _, _, _)
computeUnusedFrom(size, used, k, prevEnd) ==
    IF k > Len(used)
    THEN IF prevEnd < size - 1
         THEN << [start |-> prevEnd + 1, end |-> size - 1] >>
         ELSE << >>
    ELSE (IF used[k].start > prevEnd + 1
          THEN << [start |-> prevEnd + 1, end |-> used[k].start - 1] >>
          ELSE << >>)
         \o computeUnusedFrom(size, used, k + 1, used[k].end)

computeUnused(size, used) == computeUnusedFrom(size, used, 1, 0)

RECURSIVE combineFrom(_, _, _)
combineFrom(blocks, k, current) ==
    IF k > Len(blocks) THEN << current >>
    ELSE IF current.end + 1 >= blocks[k].start
         THEN combineFrom(blocks, k + 1,
                  IF blocks[k].end > current.end
                  THEN [current EXCEPT !.end = blocks[k].end]
                  ELSE current)
         ELSE << current >> \o combineFrom(blocks, k + 1, blocks[k])

\* the blocks combined in the order given
sortAndCombineUsableBlocks_Unsorted(blocks) ==
    IF Len(blocks) = 0 THEN blocks ELSE combineFrom(blocks, 2, blocks[1])

\* the blocks sorted, adjacent ones left apart
sortAndCombineUsableBlocks_SortOnly(blocks) == SortByStart(blocks)

sortAndCombineUsableBlocks(blocks) ==
    IF Len(blocks) = 0 THEN blocks
    ELSE LET sorted == SortByStart(blocks)
         IN combineFrom(sorted, 2, sorted[1])

\* position of the smallest unused block with room for size bytes, 0 if none
FirstFit_BestFit(unused, size) ==
    LET fits == {j \in 1..Len(unused) : unused[j].end - unused[j].start + 1 >= size}
    IN IF fits = {} THEN 0
       ELSE CHOOSE j \in fits : \A k \in fits :
                \/ unused[j].end - unused[j].start < unused[k].end - unused[k].start
                \/ /\ unused[j].end - unused[j].start = unused[k].end - unused[k].start
                   /\ j <= k

\* position of the first unused block with room for size bytes, 0 if none
FirstFit(unused, size) ==
    LET fits == {j \in 1..Len(unused) : unused[j].end - unused[j].start + 1 >= size}
    IN IF fits = {} THEN 0 ELSE CHOOSE j \in fits : \A k \in fits : j <= k

\* the partition number after the highest one used
LowestFree_AfterHighest(usedNumbers) ==
    1 + CHOOSE pn \in usedNumbers \cup {0} : \A q \in usedNumbers : q <= pn

\* the lowest partition number that is not used
LowestFree(usedNumbers) ==
    CHOOSE pn \in 1..(Cardinality(usedNumbers) + 1) :
        /\ pn \notin usedNumbers
        /\ \A q \in 1..(pn - 1) : q \in usedNumbers

\* unused after size bytes were allocated at the start of block j
Allocate(unused, j, size) ==
    LET u == [unused[j] EXCEPT !.start = unused[j].start + size]
    IN IF u.start > u.end
       THEN SubSeq(unused, 1, j - 1) \o SubSeq(unused, j + 1, Len(unused))
       ELSE [unused EXCEPT ![j] = u]

RECURSIVE calculateLoop(_, _, _, _, _)
calculateLoop(partitionResizes, i, unused, usedNumbers, resizes) ==
    IF i > Len(partitionResizes)
    THEN [ok |-> TRUE, resizes |-> resizes, label |-> "", requested |-> 0,
          err |-> ""]
    ELSE
      LET gp == partitionResizes[i] IN
      IF gp.target.size < gp.original.size
      THEN \* shrinking, adjust in place
        LET tgt == [gp.target EXCEPT
                       !.start = gp.original.start,
                       !.end = gp.original.start + gp.target.size - 1,
                       !.number = gp.original.number]
            freed == [start |-> tgt.end + 1, end |-> gp.original.end]
        IN calculateLoop(partitionResizes, i + 1,
               sortAndCombineUsableBlocks(Append(unused, freed)),
               usedNumbers,
               Append(resizes, [gp EXCEPT !.target = tgt]))
      ELSE
        LET j == FirstFit(unused, gp.target.size) IN
        IF j = 0
        THEN [ok |-> FALSE, resizes |-> << >>,
              label |-> gp.original.label, requested |-> gp.target.size,
              err |-> "InsufficientSpaceError"]
        ELSE
          LET pn == LowestFree(usedNumbers)
              tgt == [gp.target EXCEPT
                         !.start = unused[j].start,
                         !.end = unused[j].start + gp.target.size - 1,
                         !.number = pn]
          IN calculateLoop(partitionResizes, i + 1,
                 Allocate(unused, j, gp.target.size),
                 usedNumbers \cup {pn},
                 Append(resizes, [gp EXCEPT !.target = tgt]))

\* the loop entered at the second request
calculateResizes_SkipFirst(size, parts, partitionResizes) ==
    calculateLoop(partitionResizes, 2,
        computeUnused(size, SortByStart(usedBlocks(parts))),
        {parts[i].Index : i \in 1..Len(parts)},
        << >>)

calculateResizes(size, parts, partitionResizes) ==
    calculateLoop(partitionResizes, 1,
        computeUnused(size, SortByStart(usedBlocks(parts))),
        {parts[i].Index : i \in 1..Len(parts)},
        << >>)

----------------------------------------------------------------------------
(* convert.go *)

NoData == [label |-> "", size |-> 0, start |-> 0, end |-> 0, number |-> 0]

NoIdentifier == [by |-> "none", value |-> ""]

Matches(p, id) ==
    \/ id.by = "label" /\ p.Name = id.value
    \/ id.by = "uuid" /\ p.GUID = id.value

\* position (from 1) of the first row that matches the identifier, 0 if none
FirstMatch(parts, id) ==
    LET m == {i \in 1..Len(parts) : Matches(parts[i], id)}
    IN IF m = {} THEN 0 ELSE CHOOSE i \in m : \A k \in m : i <= k

\* a record that carries the position counted from 1
RecordedNumber_FromOne(parts, pos) == pos

\* the number the code records for the row found at position pos (from 1):
\* the loop variable i of "for i, p := range parts", which counts from 0
RecordedNumber(parts, pos) == pos - 1

\* findDisks on an image file: one record for each row of the table, with no
\* name, since only the kernel gives a partition a name
imageRecords(table) ==
    [i \in 1..Len(table) |->
        LET start == table[i].Start * LogicalSectorSize
        IN [name |-> "",
            label |-> table[i].Name,
            uuid |-> table[i].GUID,
            size |-> GetSize(table[i]),
            start |-> start,
            end |-> start + GetSize(table[i]) - 1,
            number |-> table[i].Index]]

\* namePartMapping[name]: position of the record that has the name (the last
\* one, each record overwrites the entry of an earlier one), 0 if none
namePartMapping(diskPartitionData, name) ==
    LET m == {i \in 1..Len(diskPartitionData) : diskPartitionData[i].name = name}
    IN IF m = {} THEN 0 ELSE CHOOSE i \in m : \A k \in m : k <= i

MatchesByName(p, diskPartitionData, id) ==
    /\ id.by = "name"
    /\ namePartMapping(diskPartitionData, id.value) # 0
    /\ diskPartitionData[namePartMapping(diskPartitionData, id.value)].start
           = GetStart(p)

\* position (from 1) of the first row that the identifier matches, by its
\* label, its GUID or the start of the record with its name; 0 if none
FirstMatchOn(parts, diskPartitionData, id) ==
    LET m == {i \in 1..Len(parts) :
                 Matches(parts[i], id) \/ MatchesByName(parts[i], diskPartitionData, id)}
    IN IF m = {} THEN 0 ELSE CHOOSE i \in m : \A k \in m : i <= k

\* the first identifier, in the order given, that matches no row
FirstMissing(parts, diskPartitionData, ids) ==
    LET m == {k \in 1..Len(ids) : FirstMatchOn(parts, diskPartitionData, ids[k]) = 0}
    IN ids[CHOOSE k \in m : \A j \in m : k <= j]

partitionIdentifiersToData(parts, diskPartitionData, ids) ==
    IF \E k \in 1..Len(ids) : FirstMatchOn(parts, diskPartitionData, ids[k]) = 0
    THEN [ok |-> FALSE, data |-> << >>,
          missing |-> FirstMissing(parts, diskPartitionData, ids)]
    ELSE [ok |-> TRUE,
          missing |-> NoIdentifier,
          data |-> [k \in 1..Len(ids) |->
              LET pos == FirstMatchOn(parts, diskPartitionData, ids[k])
                  p == parts[pos]
              IN [label |-> p.Name,
                  size |-> GetSize(p),
                  start |-> GetStart(p),
                  end |-> GetStart(p) + GetSize(p) - 1,
                  number |-> RecordedNumber(parts, pos)]]]

partitionChangesToResizeTarget(parts, diskPartitionData, changes) ==
    LET res == partitionIdentifiersToData(parts, diskPartitionData,
                   [k \in 1..Len(changes) |->
                       [by |-> changes[k].by, value |-> changes[k].value]])
    IN IF ~res.ok THEN [ok |-> FALSE, targets |-> << >>, missing |-> res.missing]
       ELSE [ok |-> TRUE,
             missing |-> NoIdentifier,
             targets |-> [k \in 1..Len(changes) |->
                 [original |-> res.data[k],
                  target |-> [NoData EXCEPT !.size = changes[k].size]]]]

----------------------------------------------------------------------------
(* run_helpers.go: planResizes *)

NoShrink == [by |-> "none", value |-> ""]

\* the size of the first target alone
SumTargets_FirstOnly(prTargets, k) ==
    IF k > Len(prTargets) THEN 0 ELSE prTargets[k].target.size

RECURSIVE SumTargets(_, _)
SumTargets(prTargets, k) ==
    IF k > Len(prTargets) THEN 0
    ELSE prTargets[k].target.size + SumTargets(prTargets, k + 1)

\* the total as it is, not rounded
RoundUpGB_NoRounding(totalGrow) == totalGrow

RoundUpGB(totalGrow) ==
    IF totalGrow % GB # 0 THEN ((totalGrow \div GB) + 1) * GB ELSE totalGrow

\* an error that is not an InsufficientSpaceError (fmt.Errorf)
PlanFailed == [ok |-> FALSE, resizes |-> << >>, label |-> "", requested |-> 0,
               err |-> "error"]

planResizes(size, parts, diskPartitionData, growPartitions, shrinkPartition) ==
    LET pr == partitionChangesToResizeTarget(parts, diskPartitionData, growPartitions) IN
    IF ~pr.ok THEN PlanFailed
    ELSE
      LET first == calculateResizes(size, parts, pr.targets) IN
      IF first.ok THEN first
      ELSE IF shrinkPartition = NoShrink THEN PlanFailed
      ELSE
        LET totalGrow == RoundUpGB(SumTargets(pr.targets, 1))
            sd == partitionIdentifiersToData(parts, diskPartitionData,
                                             << shrinkPartition >>)
        IN IF ~sd.ok THEN PlanFailed
           ELSE
             LET shrinkData == sd.data[1]
                 target == [shrinkData EXCEPT
                               !.size = shrinkData.size - totalGrow,
                               !.end = shrinkData.end - totalGrow]
                 shrink == [original |-> shrinkData, target |-> target]
             IN calculateResizes(size, parts, << shrink >> \o pr.targets)

----------------------------------------------------------------------------
(* Filesystems held by the slots *)

NoFs == [kind |-> "none", tag |-> "", size |-> 0]

HasIndex(table, n) == \E i \in 1..Len(table) : table[i].Index = n

\* position (from 1) of the row in slot n; only used when HasIndex(table, n)
PositionOf(table, n) == CHOOSE i \in 1..Len(table) : table[i].Index = n

\* slot of the first row that starts at the given byte, 0 if none
SlotAtStart(table, start) ==
    LET m == {i \in 1..Len(table) : GetStart(table[i]) = start}
    IN IF m = {} THEN 0 ELSE table[CHOOSE i \in m : \A k \in m : i <= k].Index

\* a probe that recognises no filesystem at all
GetFilesystem_AlwaysUnknown(table, fs, n) == "unknown"

\* d.GetFilesystem(n): "error" when there is no such partition (0 is the
\* whole disk, which holds a partition table and no filesystem), "unknown"
\* when the slot holds no recognisable filesystem, else the filesystem kind
GetFilesystem(table, fs, n) ==
    IF n < 1 \/ ~HasIndex(table, n) THEN "error"
    ELSE IF fs[n].kind \in {"none", "unknown"} THEN "unknown"
    ELSE fs[n].kind

----------------------------------------------------------------------------
(* The executor steps, as functions of the table read and the plan *)

NeedsShrink(r) == ~(r.original.size <= r.target.size)

\* resizeFilesystem: the size handed to resize2fs, in MB
newSizeMB(filesystemData, delta) == (filesystemData.size + delta) \div MB

\* shrinkFilesystems: failAt is the plan position whose external tool run
\* fails (0: none fails).  The tool also fails when asked for a size that is
\* not positive.
RECURSIVE shrinkFsLoop(_, _, _, _, _, _)
shrinkFsLoop(table, resizes, i, fs, failAt, tools) ==
    IF i > Len(resizes)
    THEN [err |-> FALSE, why |-> "", fs |-> fs, tools |-> tools]
    ELSE
      LET r == resizes[i] IN
      IF ~NeedsShrink(r) THEN shrinkFsLoop(table, resizes, i + 1, fs, failAt, tools)
      ELSE IF GetFilesystem(table, fs, r.original.number) \in {"error", "unknown"}
           THEN [err |-> TRUE, why |-> "GetFilesystemFailed",
                 fs |-> fs, tools |-> tools]
      ELSE IF GetFilesystem(table, fs, r.original.number) # "ext4"
           THEN [err |-> TRUE, why |-> "UnsupportedFilesystem",
                 fs |-> fs, tools |-> tools]
      ELSE
        LET delta == r.target.size - r.original.size
            mb == newSizeMB(r.original, delta)
            slot == SlotAtStart(table, r.original.start)
        IN IF failAt = i \/ mb <= 0 \/ r.original.size + delta <= 0
           THEN [err |-> TRUE, why |-> "ExternalToolFailed",
                 fs |-> fs, tools |-> tools + 1]
           ELSE shrinkFsLoop(table, resizes, i + 1,
                    IF slot = 0 THEN fs
                    ELSE [fs EXCEPT ![slot].size = mb * MB],
                    failAt, tools + 1)

\* shrinkPartitions: the row at position original.number - 1 (from 0) gets
\* the target size.  err: the position is outside the table (the run panics).
RECURSIVE shrinkPartLoop(_, _, _, _)
shrinkPartLoop(table, resizes, i, count) ==
    IF i > Len(resizes) THEN [err |-> FALSE, table |-> table, count |-> count]
    ELSE
      LET r == resizes[i] IN
      IF ~NeedsShrink(r) THEN shrinkPartLoop(table, resizes, i + 1, count)
      ELSE IF r.original.number < 1 \/ r.original.number > Len(table)
           THEN [err |-> TRUE, table |-> table, count |-> count]
      ELSE shrinkPartLoop(
               [table EXCEPT ![r.original.number].Size = r.target.size],
               resizes, i + 1, count + 1)

\* createPartitions: labels holds the names of the table as read
RECURSIVE createLoop(_, _, _, _, _)
createLoop(read, labels, resizes, i, partitions) ==
    IF i > Len(resizes) THEN [err |-> FALSE, table |-> partitions]
    ELSE
      LET r == resizes[i] IN
      IF r.original.start = r.target.start
      THEN createLoop(read, labels, resizes, i + 1, partitions)
      ELSE IF ~HasIndex(read, r.original.number)
           THEN [err |-> TRUE, table |-> partitions]
      ELSE
        LET p == read[PositionOf(read, r.original.number)]
            altName == getAlternateLabel(p.Name)
        IN IF altName \in labels
           THEN createLoop(read, labels, resizes, i + 1, partitions)
           ELSE createLoop(read, labels, resizes, i + 1,
                    Append(partitions,
                        [Index |-> r.target.number,
                         Start |-> r.target.start \div LogicalSectorSize,
                         Size |-> r.target.size,
                         Type |-> LinuxFilesystem,
                         Name |-> altName,
                         GUID |-> 0,
                         Attributes |-> p.Attributes]))

createPartitionsTable(read, resizes) ==
    createLoop(read, {read[i].Name : i \in 1..Len(read)}, resizes, 1, read)

\* copyFilesystems: failAt is the plan position whose copy or verification
\* fails (0: none fails)
RECURSIVE copyLoop(_, _, _, _, _, _)
copyLoop(table, resizes, i, fs, failAt, writes) ==
    IF i > Len(resizes)
    THEN [err |-> FALSE, why |-> "", fs |-> fs, writes |-> writes]
    ELSE
      LET r == resizes[i] IN
      IF r.original.start = r.target.start
      THEN copyLoop(table, resizes, i + 1, fs, failAt, writes)
      ELSE
        LET kind == GetFilesystem(table, fs, r.original.number)
            src == r.original.number
            dst == r.target.number
        IN IF kind = "error"
           THEN [err |-> TRUE, why |-> "GetFilesystemFailed",
                 fs |-> fs, writes |-> writes]
           ELSE IF kind \notin {"unknown", "squashfs", "ext4", "fat32"}
           THEN [err |-> TRUE, why |-> "UnsupportedFilesystem",
                 fs |-> fs, writes |-> writes]
           ELSE IF ~HasIndex(table, dst)
           THEN [err |-> TRUE, why |-> "CopyFailed", fs |-> fs, writes |-> writes]
           ELSE IF failAt = i
           THEN [err |-> TRUE, why |-> "CopyFailed",
                 fs |-> [fs EXCEPT ![dst] = [kind |-> "unknown", tag |-> "", size |-> 0]],
                 writes |-> writes + 1]
           ELSE copyLoop(table, resizes, i + 1,
                    [fs EXCEPT ![dst] =
                        IF kind \in {"unknown", "squashfs"}
                        THEN fs[src]
                        ELSE [kind |-> kind, tag |-> fs[src].tag,
                              size |-> table[PositionOf(table, dst)].Size]],
                    failAt, writes + 1)

\* swapPartitions: a slot that is not in the table maps to position 0 (from 0),
\* the zero value of the indexToPosition map
indexToPosition(table, n) == IF HasIndex(table, n) THEN PositionOf(table, n) ELSE 1

SwapRows(table, a, b) ==
    [table EXCEPT
        ![a].Name = table[b].Name, ![a].Type = table[b].Type,
        ![a].GUID = table[b].GUID, ![a].Attributes = table[b].Attributes,
        ![b].Name = table[a].Name, ![b].Type = table[a].Type,
        ![b].GUID = table[a].GUID, ![b].Attributes = table[a].Attributes]

RECURSIVE swapLoop(_, _, _)
swapLoop(table, resizes, i) ==
    IF i > Len(resizes) THEN table
    ELSE
      LET r == resizes[i] IN
      IF r.original.number = r.target.number THEN swapLoop(table, resizes, i + 1)
      ELSE swapLoop(SwapRows(table,
                             indexToPosition(table, r.original.number),
                             indexToPosition(table, r.target.number)),
                    resizes, i + 1)

swapPartitionsTable(table, resizes) == swapLoop(table, resizes, 1)

\* removePartitions marking the partition of every action
toRemove_EveryAction(resizes) ==
    {resizes[i].original.number : i \in 1..Len(resizes)}

\* removePartitions
toRemove(resizes) ==
    {resizes[i].original.number : i \in
        {k \in 1..Len(resizes) : resizes[k].original.number # resizes[k].target.number}}

removePartitionsTable(table, resizes) ==
    [i \in 1..Len(table) |->
        IF table[i].Index \in toRemove(resizes)
        THEN [table[i] EXCEPT !.Type = Unused]
        ELSE table[i]]

----------------------------------------------------------------------------
(* Run and resize: the state machine *)

Steps == << "shrinkFilesystems", "shrinkPartitions", "createPartitions",
            "copyFilesystems", "swapPartitions", "removePartitions" >>

StepSet == {Steps[i] : i \in 1..Len(Steps)}

\* resize() with the identity swap ahead of the copy
NextStep_SwapBeforeCopy(step) ==
    CASE step = "shrinkFilesystems" -> "shrinkPartitions"
      [] step = "shrinkPartitions" -> "createPartitions"
      [] step = "createPartitions" -> "swapPartitions"
      [] step = "swapPartitions" -> "copyFilesystems"
      [] step = "copyFilesystems" -> "removePartitions"
      [] step = "removePartitions" -> "done"

\* resize(): the step that follows a step that returned no error
NextStep(step) ==
    CASE step = "shrinkFilesystems" -> "shrinkPartitions"
      [] step = "shrinkPartitions" -> "createPartitions"
      [] step = "createPartitions" -> "copyFilesystems"
      [] step = "copyFilesystems" -> "swapPartitions"
      [] step = "swapPartitions" -> "removePartitions"
      [] step = "removePartitions" -> "done"

\* resize() going on to the next step whatever the step returned
AfterStep_IgnoreError(step, err) == NextStep(step)

\* resize(): "if err := step(...); err != nil { return err }"
AfterStep(step, err) == IF err THEN "failed" ELSE NextStep(step)

\* Run() calling resize() whatever dryRun says
AfterPlan_IgnoreDryRun(dryRun) == "shrinkFilesystems"

\* Run(): "if dryRun { return nil }", else resize()
AfterPlan(dryRun) == IF dryRun THEN "done" ELSE "shrinkFilesystems"

NoEffects == [commits |-> 0, tools |-> 0, data |-> 0]

\* the error value a planner call hands to its caller
OutcomeOf(res) == [err |-> res.err, label |-> res.label, requested |-> res.requested]

NoOutcome == [err |-> "", label |-> "", requested |-> 0]

\* the partitions of the disk image before the first run: three rows in
\* slots 1..3, one after the other from sector 1, of len[k] sectors each
Row(k, start, sectors) ==
    [Index |-> k, Start |-> start, Size |-> sectors * LogicalSectorSize,
     Type |-> IF k = 1 THEN EFISystemPartition ELSE LinuxFilesystem,
     Name |-> IF k = 1 THEN "p1" ELSE IF k = 2 THEN "p2" ELSE "p3",
     GUID |-> k,
     Attributes |-> IF k = 1 THEN 1 ELSE 0]

Layouts ==
    {len \in (1..2) \X (1..2) \X (2..MaxPartSectors) :
        1 + len[1] + len[2] + len[3] <= DiskSectors}

InitialTable(len) ==
    << Row(1, 1, len[1]), Row(2, 1 + len[1], len[2]),
       Row(3, 1 + len[1] + len[2], len[3]) >>

\* the filesystems on the image: FAT32 on the first partition, ext4 on the
\* third, and ext4 or a kind the resizer does not handle on the second
FsKinds == {"ext4", "iso9660"}

InitialFs(table, kind) ==
    [n \in 1..MaxIndex |->
        IF n = 1 THEN [kind |-> "fat32", tag |-> "p1", size |-> table[1].Size]
        ELSE IF n = 2
             THEN [kind |-> kind, tag |-> table[n].Name, size |-> table[n].Size]
        ELSE IF n = 3
             THEN [kind |-> "ext4", tag |-> table[n].Name, size |-> table[n].Size]
             ELSE NoFs]

Changes == [by : {"label"}, value : {"p1", "p2", "p3"}, size : 3..MaxTarget]

GrowLists == {<< c >> : c \in Changes} \cup {<< c, d >> : c \in Changes, d \in Changes}

Shrinks == {NoShrink, [by |-> "label", value |-> "p2"], [by |-> "label", value |-> "p3"]}

Requests == [grows : GrowLists, shrink : Shrinks, dryRun : BOOLEAN]

Init ==
    /\ \E len \in Layouts : gpt = InitialTable(len)
    /\ \E kind \in FsKinds : fsys = InitialFs(gpt, kind)
    /\ fsys0 = fsys
    /\ sysBlock = << >>
    /\ allDisks = << >>
    /\ filteredDisks = {}
    /\ diskSize = 0
    /\ inBlocks = << >>
    /\ outBlocks = << >>
    /\ rawCopy = NotCopying
    /\ fsShrink = NotShrinking
    /\ request \in Requests
    /\ pc = "idle"
    /\ plan = << >>
    /\ runs = 0
    /\ guidCtr = 0
    /\ gpt0 = gpt
    /\ startGpt = gpt
    /\ committed = gpt
    /\ log = << >>
    /\ failedAt = "none"
    /\ effects = NoEffects
    /\ interrupted = "none"
    /\ outcome = NoOutcome

\* Run(): find the disk that has every named partition, read its table, plan
PartIdentifiers(req) ==
    (IF req.shrink = NoShrink THEN << >> ELSE << req.shrink >>) \o req.grows

Run ==
    /\ pc \in {"idle", "failed"}
    /\ runs < MaxRuns
    /\ LET table == GetPartitionTable(gpt)
           ids == PartIdentifiers(request)
           found == \A k \in 1..Len(ids) : FirstMatch(table, ids[k]) # 0
           res == IF found
                  THEN planResizes(DiskSize, table, imageRecords(table),
                                   request.grows, request.shrink)
                  ELSE [PlanFailed EXCEPT !.err = "NoMatchingDisk"]
       IN /\ pc' = IF res.ok THEN AfterPlan(request.dryRun) ELSE "failed"
          /\ plan' = res.resizes
          /\ failedAt' = IF res.ok THEN "none" ELSE "plan"
          /\ outcome' = OutcomeOf(res)
    /\ runs' = runs + 1
    /\ startGpt' = gpt
    /\ log' = << >>
    /\ effects' = NoEffects
    /\ UNCHANGED << gpt, fsys, request, guidCtr, gpt0, fsys0, aside, committed, interrupted >>

\* a step that writes the table: d.Partition(table) succeeds (ok) or returns
\* an error and leaves the table on disk as it was
Commit(step, err, table, ok) ==
    /\ pc' = AfterStep(step, err \/ ~ok)
    /\ failedAt' = IF err \/ ~ok THEN step ELSE "none"
    /\ log' = IF err \/ ~ok THEN log ELSE Append(log, step)
    /\ outcome' = IF err \/ ~ok THEN [outcome EXCEPT !.err = "PartitionFailed"]
                                 ELSE outcome
    /\ IF err \/ ~ok
       THEN UNCHANGED << gpt, guidCtr, committed, effects >>
       ELSE /\ gpt' = WriteTable(table, guidCtr)
            /\ guidCtr' = guidCtr + BlankCount(table)
            /\ committed' = WriteTable(table, guidCtr)
            /\ effects' = [effects EXCEPT !.commits = @ + 1]

ShrinkFilesystems ==
    /\ pc = "shrinkFilesystems"
    /\ \E failAt \in 0..Len(plan) :
         LET res == shrinkFsLoop(GetPartitionTable(gpt), plan, 1, fsys, failAt, 0)
         IN /\ fsys' = res.fs
            /\ effects' = [effects EXCEPT !.tools = @ + res.tools]
            /\ pc' = AfterStep("shrinkFilesystems", res.err)
            /\ failedAt' = IF res.err THEN "shrinkFilesystems" ELSE "none"
            /\ log' = IF res.err THEN log ELSE Append(log, "shrinkFilesystems")
            /\ outcome' = [outcome EXCEPT !.err = res.why]
    /\ UNCHANGED << gpt, request, plan, runs, guidCtr, gpt0, fsys0, aside, startGpt,
                    committed, interrupted >>

ShrinkPartitions ==
    /\ pc = "shrinkPartitions"
    /\ LET res == shrinkPartLoop(GetPartitionTable(gpt), plan, 1, 0)
       IN IF ~res.err /\ res.count = 0
          THEN /\ pc' = AfterStep("shrinkPartitions", FALSE)
               /\ log' = Append(log, "shrinkPartitions")
               /\ UNCHANGED << gpt, guidCtr, committed, effects, failedAt,
                               outcome >>
          ELSE \E ok \in BOOLEAN :
                 Commit("shrinkPartitions", res.err, res.table, ok)
    /\ UNCHANGED << fsys, request, plan, runs, gpt0, fsys0, aside, startGpt, interrupted >>

CreatePartitions ==
    /\ pc = "createPartitions"
    /\ LET res == createPartitionsTable(GetPartitionTable(gpt), plan)
       IN \E ok \in BOOLEAN : Commit("createPartitions", res.err, res.table, ok)
    /\ UNCHANGED << fsys, request, plan, runs, gpt0, fsys0, aside, startGpt, interrupted >>

CopyFilesystems ==
    /\ pc = "copyFilesystems"
    /\ \E failAt \in 0..Len(plan) :
         LET res == copyLoop(GetPartitionTable(gpt), plan, 1, fsys, failAt, 0)
         IN /\ fsys' = res.fs
            /\ effects' = [effects EXCEPT !.data = @ + res.writes]
            /\ pc' = AfterStep("copyFilesystems", res.err)
            /\ failedAt' = IF res.err THEN "copyFilesystems" ELSE "none"
            /\ log' = IF res.err THEN log ELSE Append(log, "copyFilesystems")
            /\ outcome' = [outcome EXCEPT !.err = res.why]
    /\ UNCHANGED << gpt, request, plan, runs, guidCtr, gpt0, fsys0, aside, startGpt,
                    committed, interrupted >>

SwapPartitions ==
    /\ pc = "swapPartitions"
    /\ \E ok \in BOOLEAN :
         Commit("swapPartitions", FALSE,
                swapPartitionsTable(GetPartitionTable(gpt), plan), ok)
    /\ UNCHANGED << fsys, request, plan, runs, gpt0, fsys0, aside, startGpt, interrupted >>

RemovePartitions ==
    /\ pc = "removePartitions"
    /\ \E ok \in BOOLEAN :
         Commit("removePartitions", FALSE,
                removePartitionsTable(GetPartitionTable(gpt), plan), ok)
    /\ UNCHANGED << fsys, request, plan, runs, gpt0, fsys0, aside, startGpt, interrupted >>

\* the process is interrupted between two steps; the disk stays as it is
Crash ==
    /\ pc \in StepSet
    /\ pc' = "idle"
    /\ interrupted' = IF log = << >> THEN "planResizes" ELSE log[Len(log)]
    /\ UNCHANGED << gpt, fsys, request, plan, runs, guidCtr, gpt0, fsys0, aside, startGpt,
                    committed, log, failedAt, effects, outcome >>

Next ==
    \/ Run
    \/ ShrinkFilesystems
    \/ ShrinkPartitions
    \/ CreatePartitions
    \/ CopyFilesystems
    \/ SwapPartitions
    \/ RemovePartitions
    \/ Crash

Spec == Init /\ [][Next]_vars

----------------------------------------------------------------------------
(* The planner on its own: calculateResizes and planResizes applied to      *)
(* tables with gaps between the partitions, free slots below the highest   *)
(* slot in use and labels that occur twice, for requests of any size.      *)

MaxGap == 2

PlannerLabels == {<< "p1", "p2", "p3" >>, << "p1", "p2", "p2" >>}

PlannerSlots == {<< 1, 2, 3 >>, << 1, 3, 4 >>}

\* sectors of p1, gap, sectors of p2, gap, sectors of p3
PlannerLayouts ==
    {x \in (1..2) \X (0..MaxGap) \X (1..2) \X (0..MaxGap) \X (1..MaxPartSectors) :
        1 + x[1] + x[2] + x[3] + x[4] + x[5] <= DiskSectors}

PlannerTable(x, slots, labels) ==
    << [Row(1, 1, x[1]) EXCEPT !.Index = slots[1], !.Name = labels[1]],
       [Row(2, 1 + x[1] + x[2], x[3]) EXCEPT !.Index = slots[2], !.Name = labels[2]],
       [Row(3, 1 + x[1] + x[2] + x[3] + x[4], x[5])
            EXCEPT !.Index = slots[3], !.Name = labels[3]] >>

PlannerChanges == [by : {"label"}, value : {"p1", "p2", "p3"}, size : 1..MaxTarget]

PlannerGrowLists ==
    {<< c >> : c \in PlannerChanges}
        \cup {<< c, d >> : c \in PlannerChanges, d \in PlannerChanges}

PlannerShrinks == {NoShrink, [by |-> "label", value |-> "p3"]}

PlannerRequests == [grows : PlannerGrowLists, shrink : PlannerShrinks, dryRun : {TRUE}]

PlannerInit ==
    /\ \E x \in PlannerLayouts : \E slots \in PlannerSlots : \E labels \in PlannerLabels :
           gpt = PlannerTable(x, slots, labels)
    /\ fsys = [n \in 1..MaxIndex |-> NoFs]
    /\ fsys0 = fsys
    /\ sysBlock = << >>
    /\ allDisks = << >>
    /\ filteredDisks = {}
    /\ diskSize = 0
    /\ inBlocks = << >>
    /\ outBlocks = << >>
    /\ rawCopy = NotCopying
    /\ fsShrink = NotShrinking
    /\ request \in PlannerRequests
    /\ pc = "idle"
    /\ plan = << >>
    /\ runs = 0
    /\ guidCtr = 0
    /\ gpt0 = gpt
    /\ startGpt = gpt
    /\ committed = gpt
    /\ log = << >>
    /\ failedAt = "none"
    /\ effects = NoEffects
    /\ interrupted = "none"
    /\ outcome = NoOutcome

\* calculateResizes on the requests as partitionChangesToResizeTarget gives them
Calculate ==
    /\ pc = "idle"
    /\ LET table == GetPartitionTable(gpt)
           pr == partitionChangesToResizeTarget(table, imageRecords(table),
                                                request.grows)
           res == IF pr.ok THEN calculateResizes(DiskSize, table, pr.targets)
                  ELSE PlanFailed
       IN /\ plan' = res.resizes
          /\ outcome' = OutcomeOf(res)
    /\ pc' = "calculated"
    /\ UNCHANGED << gpt, fsys, request, runs, guidCtr, gpt0, fsys0, aside, startGpt, committed,
                    log, failedAt, effects, interrupted >>

\* planResizes on the request
Plan ==
    /\ pc = "idle"
    /\ LET res == planResizes(DiskSize, GetPartitionTable(gpt),
                              imageRecords(GetPartitionTable(gpt)),
                              request.grows, request.shrink)
       IN /\ plan' = res.resizes
          /\ outcome' = OutcomeOf(res)
    /\ pc' = "planned"
    /\ UNCHANGED << gpt, fsys, request, runs, guidCtr, gpt0, fsys0, aside, startGpt, committed,
                    log, failedAt, effects, interrupted >>

PlannerNext ==
    \/ Calculate
    \/ Plan

PlannerSpec == PlannerInit /\ [][PlannerNext]_vars

----------------------------------------------------------------------------
(* The disk probe: findDisks on the entries of /sys/class/block or on an    *)
(* image file, filterDisksByPartitions on its result, and the choice of the *)
(* one disk that Run goes on with.                                          *)

\* names that begin with "ram", among the names the entries and their
\* children have here
RamNames == {"ram0", "ramstat"}

HasRamPrefix(name) == name \in RamNames

\* children of an entry other than its partitions: none (""), or one of these
Markers == {"", "partition", "loop", "dm", "comp_algorithm", "ramstat", "queue"}

ChildNames(entry) ==
    (IF entry.marker = "" THEN {} ELSE {entry.marker})
        \cup {entry.parts[i].name : i \in 1..Len(entry.parts)}

\* findDisks: the loop over the children that decides whether the entry is a
\* disk
isDisk(entry) ==
    \A name \in ChildNames(entry) :
        /\ name \notin {"partition", "loop", "dm", "comp_algorithm"}
        /\ ~HasRamPrefix(name)

\* findDisks: the record of one partition child, from its files partition,
\* size, start and uevent
sysRecord(part, blockSize) ==
    [name |-> part.name,
     label |-> part.label,
     uuid |-> 0,
     size |-> part.size * blockSize,
     start |-> part.start * blockSize,
     end |-> (part.size - part.start + 1) * blockSize,
     number |-> part.id]

\* findDisks over the entries of the directory: a key for every directory
\* that is a disk and has a partition child
findDisks(entries) ==
    LET kept == {i \in 1..Len(entries) :
                    /\ entries[i].isDir
                    /\ isDisk(entries[i])
                    /\ entries[i].parts # << >>}
    IN [d \in {entries[i].name : i \in kept} |->
           LET e == entries[CHOOSE i \in kept : entries[i].name = d]
           IN [k \in 1..Len(e.parts) |-> sysRecord(e.parts[k], e.blockSize)]]

RecordMatches(p, id) ==
    \/ id.by = "name" /\ p.name = id.value
    \/ id.by = "label" /\ p.label = id.value
    \/ id.by = "uuid" /\ p.uuid = id.value

\* the disks that have a record for one of the identifiers
filterDisksByPartitions_Any(disks, partIdentifiers) ==
    {d \in DOMAIN disks :
        \E k \in 1..Len(partIdentifiers) :
            \E i \in 1..Len(disks[d]) : RecordMatches(disks[d][i], partIdentifiers[k])}

filterDisksByPartitions(disks, partIdentifiers) ==
    {d \in DOMAIN disks :
        \A k \in 1..Len(partIdentifiers) :
            \E i \in 1..Len(disks[d]) : RecordMatches(disks[d][i], partIdentifiers[k])}

\* the partition children of a disk entry: none, one, or two one after the
\* other, each with a label
SysParts(disk) ==
    {<< >>}
    \cup {<< [name |-> disk \o "1", id |-> 1, start |-> 1, size |-> n, label |-> a] >> :
            n \in 1..2, a \in {"p1", "p2"}}
    \cup {<< [name |-> disk \o "1", id |-> 1, start |-> 1, size |-> n, label |-> "p1"],
             [name |-> disk \o "2", id |-> 2, start |-> 1 + n + g, size |-> 2,
              label |-> b] >> :
            n \in 1..2, g \in 0..1, b \in {"p2", "p3"}}

SysEntries(disk) ==
    [name : {disk}, isDir : BOOLEAN, marker : Markers, blockSize : {1, LogicalSectorSize},
     parts : SysParts(disk)]

\* the directory, in the order ReadDir lists it: an entry of any kind and a
\* second entry that is a disk or a partition
SysBlocks ==
    {<< a, b >> :
        a \in SysEntries("ram0") \cup SysEntries("sda"),
        b \in {e \in SysEntries("sdb") :
                  /\ e.isDir
                  /\ e.marker \in {"", "partition"}
                  /\ e.blockSize = LogicalSectorSize
                  /\ Len(e.parts) <= 1}}

FinderIdentifiers ==
    {[by |-> "label", value |-> "p1"], [by |-> "label", value |-> "p2"],
     [by |-> "name", value |-> "sda1"], [by |-> "name", value |-> "sdb1"],
     [by |-> "uuid", value |-> 2]}

FinderRequests ==
    [grows : {<< [by |-> i.by, value |-> i.value, size |-> MaxTarget] >> :
                 i \in FinderIdentifiers},
     shrink : {NoShrink, [by |-> "label", value |-> "p3"]},
     dryRun : {TRUE}]

FinderInit ==
    /\ sysBlock \in SysBlocks
    /\ request \in FinderRequests
    /\ \E x \in {<< 1, 0, 1, 1, 2 >>} : gpt = PlannerTable(x, << 1, 3, 4 >>, << "p1", "p2", "p3" >>)
    /\ allDisks = << >>
    /\ filteredDisks = {}
    /\ diskSize = 0
    /\ inBlocks = << >>
    /\ outBlocks = << >>
    /\ rawCopy = NotCopying
    /\ fsShrink = NotShrinking
    /\ fsys = [n \in 1..MaxIndex |-> NoFs]
    /\ fsys0 = fsys
    /\ pc = "idle"
    /\ plan = << >>
    /\ runs = 0
    /\ guidCtr = 0
    /\ gpt0 = gpt
    /\ startGpt = gpt
    /\ committed = gpt
    /\ log = << >>
    /\ failedAt = "none"
    /\ effects = NoEffects
    /\ interrupted = "none"
    /\ outcome = NoOutcome

FinderFrame ==
    UNCHANGED << gpt, fsys, request, plan, runs, guidCtr, gpt0, fsys0, startGpt,
                 committed, log, failedAt, effects, interrupted, sysBlock,
                 diskSize, inBlocks, outBlocks, rawCopy, fsShrink >>

\* findDisks with no disk given: every entry of the directory is a candidate
FindDisks ==
    /\ pc = "idle"
    /\ allDisks' = findDisks(sysBlock)
    /\ pc' = "probed"
    /\ UNCHANGED << filteredDisks, outcome >>
    /\ FinderFrame

\* findDisks with the path of an image file, which has no entry in the
\* directory
FindDisksImage ==
    /\ pc = "idle"
    /\ allDisks' = [d \in {"disk.img"} |-> imageRecords(GetPartitionTable(gpt))]
    /\ pc' = "probed"
    /\ UNCHANGED << filteredDisks, outcome >>
    /\ FinderFrame

FilterDisks ==
    /\ pc = "probed"
    /\ filteredDisks' = filterDisksByPartitions(allDisks, PartIdentifiers(request))
    /\ pc' = "filtered"
    /\ UNCHANGED << allDisks, outcome >>
    /\ FinderFrame

\* Run: no disk or more than one disk is an error, one disk goes on to the plan
SelectDisk ==
    /\ pc = "filtered"
    /\ pc' = IF Cardinality(filteredDisks) = 1 THEN "planning" ELSE "failed"
    /\ outcome' = [NoOutcome EXCEPT !.err =
                      IF Cardinality(filteredDisks) = 0 THEN "NoMatchingDisk"
                      ELSE IF Cardinality(filteredDisks) > 1 THEN "AmbiguousDisk"
                      ELSE ""]
    /\ UNCHANGED << allDisks, filteredDisks >>
    /\ FinderFrame

FinderNext ==
    \/ FindDisks
    \/ FindDisksImage
    \/ FilterDisks
    \/ SelectDisk

FinderSpec == FinderInit /\ [][FinderNext]_vars

----------------------------------------------------------------------------
(* The resolver on its own: partitionChangesToResizeTarget on a block       *)
(* device, with the records that findDisks read for it, for identifiers by  *)
(* label, by GUID and by name.                                              *)

\* the entry of /sys/class/block for a device that holds the table; shift is
\* the number of sectors by which the kernel's starts differ from the table's
\* (0 unless the table was rewritten behind the kernel's back)
DeviceEntry(disk, table, shift) ==
    [name |-> disk, isDir |-> TRUE, marker |-> "queue", blockSize |-> LogicalSectorSize,
     parts |-> [i \in 1..Len(table) |->
                   [name |-> disk \o ToString(table[i].Index),
                    id |-> table[i].Index,
                    start |-> table[i].Start + shift,
                    size |-> table[i].Size \div LogicalSectorSize,
                    label |-> table[i].Name]]]

ResolverLayouts == {<< 1, 0, 1, 1, 2 >>, << 2, 1, 1, 0, 1 >>}

ResolverIdentifiers ==
    [by : {"label"}, value : {"p1", "p3", "p9"}]
        \cup [by : {"uuid"}, value : {2, 3, 9}]
        \cup [by : {"name"}, value : {"sda1", "sda3", "sda4"}]

ResolverChanges ==
    {[by |-> i.by, value |-> i.value, size |-> MaxTarget] : i \in ResolverIdentifiers}

ResolverRequests ==
    [grows : {<< c >> : c \in ResolverChanges}
                \cup {<< c, d >> : c \in ResolverChanges, d \in ResolverChanges},
     shrink : {NoShrink},
     dryRun : {TRUE}]

ResolverInit ==
    /\ \E x \in ResolverLayouts : \E slots \in PlannerSlots :
           gpt = PlannerTable(x, slots, << "p1", "p2", "p3" >>)
    /\ \E shift \in 0..1 :
           /\ sysBlock = << DeviceEntry("sda", gpt, shift) >>
           /\ allDisks = findDisks(sysBlock)
    /\ request \in ResolverRequests
    /\ filteredDisks = {}
    /\ diskSize = 0
    /\ inBlocks = << >>
    /\ outBlocks = << >>
    /\ rawCopy = NotCopying
    /\ fsShrink = NotShrinking
    /\ fsys = [n \in 1..MaxIndex |-> NoFs]
    /\ fsys0 = fsys
    /\ pc = "idle"
    /\ plan = << >>
    /\ runs = 0
    /\ guidCtr = 0
    /\ gpt0 = gpt
    /\ startGpt = gpt
    /\ committed = gpt
    /\ log = << >>
    /\ failedAt = "none"
    /\ effects = NoEffects
    /\ interrupted = "none"
    /\ outcome = NoOutcome

\* partitionChangesToResizeTarget on the table of the device and its records
Resolve ==
    /\ pc = "idle"
    /\ LET res == partitionChangesToResizeTarget(GetPartitionTable(gpt),
                                                 allDisks["sda"], request.grows)
       IN /\ plan' = res.targets
          /\ outcome' = [err |-> IF res.ok THEN ""
                                 ELSE "could not find partition for identifier",
                         by |-> res.missing.by,
                         label |-> res.missing.value,
                         requested |-> 0]
    /\ pc' = "resolved"
    /\ UNCHANGED << gpt, fsys, request, runs, guidCtr, gpt0, fsys0, aside, startGpt,
                    committed, log, failedAt, effects, interrupted >>

\* the same call with the records of an image file, which have no names
ResolveImage ==
    /\ pc = "idle"
    /\ LET res == partitionChangesToResizeTarget(GetPartitionTable(gpt),
                      imageRecords(GetPartitionTable(gpt)), request.grows)
       IN /\ plan' = res.targets
          /\ outcome' = [err |-> IF res.ok THEN ""
                                 ELSE "could not find partition for identifier",
                         by |-> res.missing.by,
                         label |-> res.missing.value,
                         requested |-> 0]
    /\ pc' = "resolvedImage"
    /\ UNCHANGED << gpt, fsys, request, runs, guidCtr, gpt0, fsys0, aside, startGpt,
                    committed, log, failedAt, effects, interrupted >>

ResolverNext ==
    \/ Resolve
    \/ ResolveImage

ResolverSpec == ResolverInit /\ [][ResolverNext]_vars

----------------------------------------------------------------------------
(* The block functions of calculate.go on their own: computeUnused and      *)
(* sortAndCombineUsableBlocks applied to lists of up to three blocks, in    *)
(* any order, apart, adjacent, overlapping or nested.                       *)

BlockSet == {b \in [start : 0..(BlockBytes - 1), end : 0..(BlockBytes - 1)] : b.start <= b.end}

BlockLists ==
    {<< >>}
        \cup {<< a >> : a \in BlockSet}
        \cup {<< a, b >> : a \in BlockSet, b \in BlockSet}
        \cup {<< a, b, c >> : a \in BlockSet, b \in BlockSet, c \in BlockSet}

BlocksInit ==
    /\ diskSize \in 1..BlockBytes
    /\ inBlocks \in BlockLists
    /\ outBlocks = << >>
    /\ rawCopy = NotCopying
    /\ fsShrink = NotShrinking
    /\ sysBlock = << >>
    /\ allDisks = << >>
    /\ filteredDisks = {}
    /\ gpt = << >>
    /\ request = [grows |-> << >>, shrink |-> NoShrink, dryRun |-> TRUE]
    /\ fsys = [n \in 1..MaxIndex |-> NoFs]
    /\ fsys0 = fsys
    /\ pc = "idle"
    /\ plan = << >>
    /\ runs = 0
    /\ guidCtr = 0
    /\ gpt0 = gpt
    /\ startGpt = gpt
    /\ committed = gpt
    /\ log = << >>
    /\ failedAt = "none"
    /\ effects = NoEffects
    /\ interrupted = "none"
    /\ outcome = NoOutcome

BlocksFrame ==
    UNCHANGED << gpt, fsys, request, plan, runs, guidCtr, gpt0, fsys0, startGpt,
                 committed, log, failedAt, effects, interrupted, outcome,
                 sysBlock, allDisks, filteredDisks, diskSize, inBlocks,
                 rawCopy, fsShrink >>

ComputeUnused ==
    /\ pc = "idle"
    /\ outBlocks' = computeUnused(diskSize, inBlocks)
    /\ pc' = "unused"
    /\ BlocksFrame

SortAndCombine ==
    /\ pc = "idle"
    /\ outBlocks' = sortAndCombineUsableBlocks(inBlocks)
    /\ pc' = "combined"
    /\ BlocksFrame

BlocksNext ==
    \/ ComputeUnused
    \/ SortAndCombine

BlocksSpec == BlocksInit /\ [][BlocksNext]_vars

----------------------------------------------------------------------------
(* The steps that write the table on their own: shrinkPartitions,           *)
(* createPartitions and removePartitions applied to plans whose actions     *)
(* carry the slot of the partition they name, as the tests of the steps     *)
(* build them, on tables whose slots need not be contiguous and that may    *)
(* hold a row with the alternate label already.                             *)

StepLayouts == {<< 1, 0, 1, 0, 2 >>, << 1, 1, 2, 0, 1 >>}

\* the record of a row, with the row's slot as number
RecordOf(p) ==
    [label |-> p.Name, size |-> GetSize(p), start |-> GetStart(p),
     end |-> GetStart(p) + GetSize(p) - 1, number |-> p.Index]

\* the action that shrinks row i of the table in place to size bytes
ShrinkAction(table, i, size) ==
    [original |-> RecordOf(table[i]),
     target |-> [label |-> "", size |-> size, start |-> GetStart(table[i]),
                 end |-> GetStart(table[i]) + size - 1, number |-> table[i].Index]]

\* the action that moves row i of the table to the given bytes and slot
MoveAction(table, i, start, size, number) ==
    [original |-> RecordOf(table[i]),
     target |-> [label |-> "", size |-> size, start |-> start,
                 end |-> start + size - 1, number |-> number]]

\* the first byte after the last partition
FreeFrom(table) == GetStart(table[Len(table)]) + GetSize(table[Len(table)])

SlotsUsed(table) == {table[i].Index : i \in 1..Len(table)}

ShrinkActions(table) ==
    {ShrinkAction(table, i, size) :
        i \in 1..Len(table), size \in 1..(MaxPartSectors * LogicalSectorSize)}

StepPlans(table) ==
    LET shrinks == {a \in ShrinkActions(table) :
                       a.target.size \in {a.original.size - 1,
                                          a.original.size - LogicalSectorSize}}
        first == {MoveAction(table, i, FreeFrom(table) + d, GetSize(table[i]),
                             LowestFree(SlotsUsed(table))) :
                     i \in 1..Len(table), d \in 0..1}
        second(a) == {MoveAction(table, i, a.target.end + 1, GetSize(table[i]),
                                 LowestFree(SlotsUsed(table) \cup {a.target.number})) :
                         i \in {k \in 1..Len(table) : table[k].Index # a.original.number}}
    IN {<< a >> : a \in shrinks \cup first}
         \cup {<< a, b >> \in {<< c, d >> : c \in shrinks, d \in first} :
                  a.original.number # b.original.number}
         \cup UNION {{<< a, b >> : b \in second(a)} : a \in first}

\* a row with the alternate label of the partition that the first move of the
\* plan names: where the plan puts it, or at the end of the disk with another
\* size and in another slot
AlternateRows(table, resizes) ==
    LET moves == {k \in 1..Len(resizes) :
                     resizes[k].original.start # resizes[k].target.start}
    IN IF moves = {} THEN {}
       ELSE LET r == resizes[CHOOSE k \in moves : \A j \in moves : k <= j]
                p == table[PositionOf(table, r.original.number)]
            IN {[Index |-> r.target.number,
                 Start |-> r.target.start \div LogicalSectorSize,
                 Size |-> r.target.size,
                 Type |-> LinuxFilesystem,
                 Name |-> getAlternateLabel(p.Name),
                 GUID |-> 50,
                 Attributes |-> p.Attributes],
                [Index |-> MaxIndex,
                 Start |-> DiskSectors - 1,
                 Size |-> LogicalSectorSize,
                 Type |-> LinuxFilesystem,
                 Name |-> getAlternateLabel(p.Name),
                 GUID |-> 50,
                 Attributes |-> p.Attributes]}

StepInit ==
    /\ \E x \in StepLayouts : \E slots \in PlannerSlots :
         LET table == PlannerTable(x, slots, << "p1", "p2", "p3" >>)
         IN \E resizes \in StepPlans(table) :
              /\ plan = resizes
              /\ \/ gpt = table
                 \/ \E alt \in AlternateRows(table, resizes) :
                        gpt = SortByIndex(Append(table, alt))
    /\ pc \in {"shrinkPartitions", "createPartitions", "removePartitions"}
    /\ request = [grows |-> << >>, shrink |-> NoShrink, dryRun |-> FALSE]
    /\ fsys = [n \in 1..MaxIndex |-> NoFs]
    /\ fsys0 = fsys
    /\ sysBlock = << >>
    /\ allDisks = << >>
    /\ filteredDisks = {}
    /\ diskSize = 0
    /\ inBlocks = << >>
    /\ outBlocks = << >>
    /\ rawCopy = NotCopying
    /\ fsShrink = NotShrinking
    /\ runs = 1
    /\ guidCtr = 0
    /\ gpt0 = gpt
    /\ startGpt = gpt
    /\ committed = gpt
    /\ log = << >>
    /\ failedAt = "none"
    /\ effects = NoEffects
    /\ interrupted = "none"
    /\ outcome = NoOutcome

StepNext ==
    \/ ShrinkPartitions
    \/ CreatePartitions
    \/ RemovePartitions

StepSpec == StepInit /\ [][StepNext]_vars

----------------------------------------------------------------------------
(* Vocabulary of the properties *)

Active == GetPartitionTable(gpt)

LabelsOf(table) == {table[i].Name : i \in 1..Len(table)}

Identity(p) == << p.Name, p.Type, p.GUID, p.Attributes >>

Placement(p) == << p.Name, GetStart(p), GetSize(p) >>

LayoutOf(table) == {Placement(table[i]) : i \in 1..Len(table)}

RowsAt(table, n) == {table[i] : i \in {k \in 1..Len(table) : table[k].Index = n}}

RowsNamed(table, name) == {table[i] : i \in {k \in 1..Len(table) : table[k].Name = name}}

IsMove(r) == r.target.number # r.original.number

DistinctGrows ==
    \A i \in 1..Len(request.grows) : \A j \in 1..Len(request.grows) :
        i # j => request.grows[i].value # request.grows[j].value

GrowsNamed(name) == \E k \in 1..Len(request.grows) : request.grows[k].value = name

\* the plan of the current run starts with the shrink that planResizes added
ShrinkPlanned ==
    /\ request.shrink # NoShrink
    /\ Len(plan) = Len(request.grows) + 1
    /\ plan[1].original.label = request.shrink.value

RECURSIVE RequestedGrowth(_, _)
RequestedGrowth(grows, k) ==
    IF k > Len(grows) THEN 0 ELSE grows[k].size + RequestedGrowth(grows, k + 1)

FinishedFirstRun == pc = "done" /\ ~request.dryRun /\ runs = 1

----------------------------------------------------------------------------
(* C1: after a successful run that needed the shrink partition S, the      *)
(* labels of the rows in use are the labels before the run, every grown    *)
(* partition's row has its requested size, and S has its original size     *)
(* minus the total requested growth rounded up to GB.                      *)
C1_Case ==
    /\ FinishedFirstRun
    /\ ShrinkPlanned
    /\ DistinctGrows
    /\ ~GrowsNamed(request.shrink.value)

C1_ShrinkRunResult ==
    C1_Case =>
        /\ LabelsOf(Active) = LabelsOf(gpt0)
        /\ \A k \in 1..Len(request.grows) :
             \A p \in RowsNamed(Active, request.grows[k].value) :
                 GetSize(p) = request.grows[k].size
        /\ \A p \in RowsNamed(Active, request.shrink.value) :
             \A q \in RowsNamed(gpt0, request.shrink.value) :
                 GetSize(p) = GetSize(q) - RoundUpGB(RequestedGrowth(request.grows, 1))

----------------------------------------------------------------------------
(* Vocabulary of the planner properties *)

Interval(d) == d.start..d.end

\* the rows the plan of the current run was computed from
PlannedOn == GetPartitionTable(startGpt)

OriginalBlocks == {usedBlocks(PlannedOn)[i] : i \in 1..Len(PlannedOn)}

OriginalBytes == UNION {Interval(b) : b \in OriginalBlocks}

WellFormedTable ==
    /\ \A b \in OriginalBlocks : b.start <= b.end /\ Interval(b) \subseteq 0..(DiskSize - 1)
    /\ \A b \in OriginalBlocks : \A c \in OriginalBlocks :
           b # c => Interval(b) \cap Interval(c) = {}

IsShrinkAction(r) == r.target.size < r.original.size

\* the bytes of its own partition that a shrink action gives up
FreedTail(r) == {b \in Interval(r.original) : b > r.target.end}

FreeFor(i) ==
    ((0..(DiskSize - 1)) \ OriginalBytes)
        \cup UNION {FreedTail(plan[k]) : k \in {k \in 1..(i - 1) : IsShrinkAction(plan[k])}}

UnchangedBlocks ==
    {b \in OriginalBlocks : \A i \in 1..Len(plan) : plan[i].original.start # b.start}

PlannedRequest ==
    /\ Len(plan) > 0
    /\ WellFormedTable
    /\ DistinctGrows
    /\ ~GrowsNamed(request.shrink.value)

----------------------------------------------------------------------------
(* C9: in a plan computed from a table of pairwise disjoint partitions     *)
(* inside the disk, every target lies inside the disk, every grow or move  *)
(* target lies in bytes that no original partition covers or that a        *)
(* preceding shrink action of the plan gave up, and no target overlaps     *)
(* another target or a partition the plan leaves alone.                    *)
C9_TargetsInFreeSpace ==
    PlannedRequest =>
        /\ \A i \in 1..Len(plan) :
               Interval(plan[i].target) \subseteq 0..(DiskSize - 1)
        /\ \A i \in 1..Len(plan) :
               ~IsShrinkAction(plan[i]) => Interval(plan[i].target) \subseteq FreeFor(i)
        /\ \A i \in 1..Len(plan) : \A j \in 1..Len(plan) :
               i # j => Interval(plan[i].target) \cap Interval(plan[j].target) = {}
        /\ \A i \in 1..Len(plan) : \A b \in UnchangedBlocks :
               Interval(plan[i].target) \cap Interval(b) = {}

----------------------------------------------------------------------------
(* C10: no action of a plan has target.end < target.start: every action    *)
(* has target.size >= 1 and target.end = target.start + target.size - 1,   *)
(* also when the requested growth is as large as the shrink partition.     *)
C10_NoInvertedTarget ==
    \A i \in 1..Len(plan) :
        /\ plan[i].target.size >= 1
        /\ plan[i].target.end = plan[i].target.start + plan[i].target.size - 1

----------------------------------------------------------------------------
(* C5: the steps of a run happen in the order shrink filesystems, shrink   *)
(* partitions, create partitions, copy filesystems, swap partitions,       *)
(* remove partitions; a step starts only when all the steps before it have *)
(* returned without error, so the copy starts after both shrink steps and  *)
(* the swap is written only after the copy step has succeeded.             *)
C5_StepOrder ==
    /\ Len(log) <= Len(Steps)
    /\ \A i \in 1..Len(log) : log[i] = Steps[i]
    /\ pc \in StepSet => pc = Steps[Len(log) + 1]
    /\ (pc = "done" /\ ~request.dryRun) => log = Steps

C5_Witness ==
    /\ pc = "done"
    /\ log = Steps
    /\ ShrinkPlanned
    /\ \E i \in 1..Len(plan) : IsMove(plan[i])

----------------------------------------------------------------------------
(* C7: when a step fails the run ends with that error: no later step is    *)
(* executed, the steps done are exactly the ones before the failed step,   *)
(* and the table on disk is the one the last successful write left.        *)
StepIndex(step) == CHOOSE i \in 1..Len(Steps) : Steps[i] = step

C7_FailureStopsRun ==
    failedAt \in StepSet =>
        /\ pc = "failed"
        /\ log = SubSeq(Steps, 1, StepIndex(failedAt) - 1)
        /\ gpt = committed

C7_Witness ==
    /\ failedAt = "copyFilesystems"
    /\ effects.commits >= 1
    /\ gpt # startGpt

----------------------------------------------------------------------------
(* C8: with dryRun set, Run plans and returns: the table and the           *)
(* filesystems stay as they were, no table is written, no filesystem tool  *)
(* runs, no partition data is written, and no step is ever entered.        *)
C8_DryRunMutatesNothing ==
    request.dryRun =>
        /\ gpt = gpt0
        /\ fsys = fsys0
        /\ effects = NoEffects
        /\ pc \notin StepSet

C8_Witness ==
    /\ request.dryRun
    /\ pc = "done"
    /\ ShrinkPlanned
    /\ \E i \in 1..Len(plan) : IsMove(plan[i])

----------------------------------------------------------------------------
(* C6: every step that writes the table is idempotent: on a disk on which  *)
(* the step has just been committed, running the step again with the same  *)
(* plan leaves the rows in use as they are. This is stated for shrink      *)
(* partitions, create partitions, swap partitions and remove partitions.   *)
JustCommitted(step) ==
    /\ Len(log) > 0
    /\ log[Len(log)] = step
    /\ pc = NextStep(step)

\* the rows in use after a second run of a step that returned res
Rewritten(err, table) ==
    IF err THEN Active ELSE GetPartitionTable(WriteTable(table, guidCtr))

ShrinkPartitionsAgain ==
    LET res == shrinkPartLoop(Active, plan, 1, 0) IN Rewritten(res.err, res.table)

CreatePartitionsAgain ==
    LET res == createPartitionsTable(Active, plan) IN Rewritten(res.err, res.table)

SwapPartitionsAgain == Rewritten(FALSE, swapPartitionsTable(Active, plan))

RemovePartitionsAgain == Rewritten(FALSE, removePartitionsTable(Active, plan))

C6_StepsIdempotent ==
    /\ JustCommitted("shrinkPartitions") => ShrinkPartitionsAgain = Active
    /\ JustCommitted("createPartitions") => CreatePartitionsAgain = Active
    /\ JustCommitted("swapPartitions") => SwapPartitionsAgain = Active
    /\ JustCommitted("removePartitions") => RemovePartitionsAgain = Active

----------------------------------------------------------------------------
(* C2: a run that was interrupted after a committed step and started again *)
(* with the same request ends with the partition layout that a run of the  *)
(* request without interruption produces from the original disk.           *)

\* Run() and resize() from the table before the first run, no step failing
Uninterrupted ==
    LET read0 == GetPartitionTable(gpt0)
        p == planResizes(DiskSize, read0, imageRecords(read0),
                         request.grows, request.shrink)
        sf == shrinkFsLoop(read0, p.resizes, 1, fsys0, 0, 0)
        sp == shrinkPartLoop(read0, p.resizes, 1, 0)
        t1 == IF sp.count = 0 THEN gpt0 ELSE WriteTable(sp.table, 0)
        cr == createPartitionsTable(GetPartitionTable(t1), p.resizes)
        t2 == WriteTable(cr.table, 0)
        cp == copyLoop(GetPartitionTable(t2), p.resizes, 1, sf.fs, 0, 0)
        t3 == WriteTable(swapPartitionsTable(GetPartitionTable(t2), p.resizes), 0)
        t4 == WriteTable(removePartitionsTable(GetPartitionTable(t3), p.resizes), 0)
    IN [ok |-> p.ok /\ ~sf.err /\ ~sp.err /\ ~cr.err /\ ~cp.err, table |-> t4]

C2_ResumedRunSameLayout ==
    (pc = "done" /\ ~request.dryRun /\ interrupted # "none" /\ Uninterrupted.ok) =>
        LayoutOf(Active) = LayoutOf(GetPartitionTable(Uninterrupted.table))

----------------------------------------------------------------------------
(* C3: after a successful run, for every action that moves a partition to  *)
(* another slot, the row at the target slot starts at target.start, has    *)
(* target.size and carries the label, type, GUID and attributes of the     *)
(* original partition's row, and the original partition's slot is unused.  *)

\* the rows of the table the plan was made from that an action's original describes
OriginalRows(r) ==
    {PlannedOn[i] : i \in {k \in 1..Len(PlannedOn) :
        /\ GetStart(PlannedOn[k]) = r.original.start
        /\ PlannedOn[k].Name = r.original.label}}

C3_MovedRowAtTarget ==
    (FinishedFirstRun /\ DistinctGrows) =>
        \A i \in 1..Len(plan) : IsMove(plan[i]) =>
            \A o \in OriginalRows(plan[i]) :
                /\ RowsAt(Active, o.Index) = {}
                /\ \E p \in RowsAt(Active, plan[i].target.number) :
                       /\ GetStart(p) = plan[i].target.start
                       /\ GetSize(p) = plan[i].target.size
                       /\ Identity(p) = Identity(o)

----------------------------------------------------------------------------
(* C4: for every grow or move action, from the start of the run until the  *)
(* swap step commits, the original partition's row is on disk unchanged,   *)
(* and the target slot is one that the table did not use.                  *)
C4_OriginalRowUntouched ==
    (pc \in StepSet /\ "swapPartitions" \notin {log[k] : k \in 1..Len(log)}
        /\ DistinctGrows /\ ~GrowsNamed(request.shrink.value)) =>
        \A i \in 1..Len(plan) : IsMove(plan[i]) =>
            /\ RowsAt(PlannedOn, plan[i].target.number) = {}
            /\ \A o \in OriginalRows(plan[i]) : o \in RowsAt(Active, o.Index)

----------------------------------------------------------------------------
(* The free space as the requests of a plan find it, byte by byte *)

\* the free bytes before the first request: byte 0 is never counted as free
FreeAtStart == (1..(DiskSize - 1)) \ OriginalBytes

\* the block a shrink action hands back
FreedBlock(r) == (r.target.end + 1)..r.original.end

\* the free bytes when request i of the plan is handled
RECURSIVE FreeBefore(_)
FreeBefore(i) ==
    IF i = 1 THEN FreeAtStart
    ELSE IF IsShrinkAction(plan[i - 1])
         THEN FreeBefore(i - 1) \cup FreedBlock(plan[i - 1])
         ELSE FreeBefore(i - 1) \ Interval(plan[i - 1].target)

\* the first bytes of the free blocks, and the length of the block at b
BlockStarts(free) == {b \in free : (b - 1) \notin free}

BlockLength(free, b) ==
    CHOOSE n \in 1..DiskSize : (b..(b + n - 1)) \subseteq free /\ (b + n) \notin free

FitStarts(free, size) == {b \in BlockStarts(free) : BlockLength(free, b) >= size}

Planned == pc \in {"calculated", "planned"} /\ outcome.err = "" /\ WellFormedTable

----------------------------------------------------------------------------
(* C11: every request that is not a shrink is placed at the start of the   *)
(* lowest free block that has room for it, with                            *)
(* target.end = target.start + target.size - 1, also when a later block    *)
(* would fit it more tightly.                                              *)
C11_FirstFit ==
    Planned =>
        \A i \in 1..Len(plan) : ~IsShrinkAction(plan[i]) =>
            LET fits == FitStarts(FreeBefore(i), plan[i].target.size) IN
            /\ plan[i].target.start \in fits
            /\ \A b \in fits : plan[i].target.start <= b
            /\ plan[i].target.end = plan[i].target.start + plan[i].target.size - 1

\* a later free block fits the request more tightly than the one chosen
C11_Witness ==
    /\ Planned
    /\ \E i \in 1..Len(plan) :
         /\ ~IsShrinkAction(plan[i])
         /\ \E b \in FitStarts(FreeBefore(i), plan[i].target.size) :
              /\ b > plan[i].target.start
              /\ BlockLength(FreeBefore(i), b)
                   < BlockLength(FreeBefore(i), plan[i].target.start)

----------------------------------------------------------------------------
(* C12: a request for less than the partition's size gives an action in    *)
(* place: target.start = original.start,                                   *)
(* target.end = target.start + target.size - 1, target.number =            *)
(* original.number.  The bytes it gives up are joined with the free bytes  *)
(* next to them and serve the requests that follow: a request that comes   *)
(* right after the shrink, finds no room at a lower address and fits the   *)
(* joined block is placed at the byte after the shrink's target.end.       *)

\* the row a request names
OriginalOf(k) == PlannedOn[FirstMatch(PlannedOn, request.grows[k])]

\* the byte after the new end of the partition that request 1 shrinks
TailStart == GetStart(OriginalOf(1)) + request.grows[1].size

\* the free bytes once request 1 has given up its tail
FreeWithTail ==
    FreeAtStart \cup (TailStart..(GetStart(OriginalOf(1)) + GetSize(OriginalOf(1)) - 1))

ShrinkThenGrow ==
    /\ pc = "calculated"
    /\ WellFormedTable
    /\ Len(request.grows) = 2
    /\ \A k \in 1..2 : FirstMatch(PlannedOn, request.grows[k]) # 0
    /\ request.grows[1].size < GetSize(OriginalOf(1))
    /\ request.grows[2].size >= GetSize(OriginalOf(2))
    /\ \A b \in FitStarts(FreeAtStart, request.grows[2].size) : b > TailStart
    /\ BlockLength(FreeWithTail, TailStart) >= request.grows[2].size

C12_ShrinkInPlace ==
    /\ Planned =>
         \A i \in 1..Len(plan) : IsShrinkAction(plan[i]) =>
             /\ plan[i].target.start = plan[i].original.start
             /\ plan[i].target.end = plan[i].target.start + plan[i].target.size - 1
             /\ plan[i].target.number = plan[i].original.number
    /\ ShrinkThenGrow =>
         /\ outcome.err = ""
         /\ Len(plan) = 2
         /\ plan[2].target.start = plan[1].target.end + 1
         /\ plan[2].target.start = TailStart

\* the tail alone is too short: the request needs the free bytes after it too
C12_Witness ==
    /\ ShrinkThenGrow
    /\ GetSize(OriginalOf(1)) - request.grows[1].size < request.grows[2].size
    /\ plan[2].target.start = TailStart

----------------------------------------------------------------------------
(* C13: every action that is not a shrink gets as target.number the        *)
(* smallest positive integer that is neither the slot of a partition of    *)
(* the table nor the target.number of an earlier such action; so these     *)
(* numbers are pairwise distinct and free in the table.                    *)

SlotsOf(table) == {table[i].Index : i \in 1..Len(table)}

\* the slots taken when request i is handled
TakenBefore(i) ==
    SlotsOf(PlannedOn)
        \cup {plan[k].target.number : k \in {k \in 1..(i - 1) : ~IsShrinkAction(plan[k])}}

C13_LowestFreeSlot ==
    Planned =>
        /\ \A i \in 1..Len(plan) : ~IsShrinkAction(plan[i]) =>
               /\ plan[i].target.number >= 1
               /\ plan[i].target.number \notin TakenBefore(i)
               /\ \A q \in 1..(plan[i].target.number - 1) : q \in TakenBefore(i)
               /\ plan[i].target.number \notin SlotsOf(PlannedOn)
        /\ \A i \in 1..Len(plan) : \A j \in 1..Len(plan) :
               (i # j /\ ~IsShrinkAction(plan[i]) /\ ~IsShrinkAction(plan[j]))
                   => plan[i].target.number # plan[j].target.number

\* a free slot below the highest slot in use, and a second action after it
C13_Witness ==
    /\ Planned
    /\ SlotsOf(PlannedOn) = {1, 3, 4}
    /\ Len(plan) = 2
    /\ plan[1].target.number = 2
    /\ plan[2].target.number = 5

----------------------------------------------------------------------------
(* C14: when the requests do not fit in the free space and a shrink        *)
(* partition is named, the plan of planResizes is the shrink action, then  *)
(* one action for each request in the order given; the shrink's            *)
(* target.size is the partition's size minus the sum of the requested      *)
(* sizes rounded up to a multiple of GB.                                   *)

\* calculateResizes places every request without a shrink
FitsWithoutShrink ==
    LET pr == partitionChangesToResizeTarget(PlannedOn, imageRecords(PlannedOn),
                                             request.grows)
    IN pr.ok /\ calculateResizes(DiskSize, PlannedOn, pr.targets).ok

\* the least multiple of GB that is not less than n
NextGBMultiple(n) ==
    CHOOSE m \in {GB * k : k \in 0..(n + 1)} : m >= n /\ m - n < GB

PlannedWithShrink ==
    /\ pc = "planned"
    /\ outcome.err = ""
    /\ WellFormedTable
    /\ request.shrink # NoShrink
    /\ ~FitsWithoutShrink

C14_ShrinkFirstRounded ==
    PlannedWithShrink =>
        /\ Len(plan) = Len(request.grows) + 1
        /\ plan[1].original.label = request.shrink.value
        /\ plan[1].original.size = GetSize(PlannedOn[FirstMatch(PlannedOn, request.shrink)])
        /\ plan[1].target.size =
               plan[1].original.size
                   - NextGBMultiple(RequestedGrowth(request.grows, 1))
        /\ \A k \in 1..Len(request.grows) :
               /\ plan[k + 1].original.label = request.grows[k].value
               /\ plan[k + 1].target.size = request.grows[k].size

\* two requests whose sizes add up to no multiple of GB
C14_Witness ==
    /\ PlannedWithShrink
    /\ Len(request.grows) = 2
    /\ request.grows[1].value # request.grows[2].value
    /\ RequestedGrowth(request.grows, 1) % GB # 0
    /\ plan[1].target.size >= 1

----------------------------------------------------------------------------
(* C15: when every request can be placed in the free space of the disk,    *)
(* the plan has one action for each request and no action for the shrink   *)
(* partition, also when one is named, and the run leaves the shrink        *)
(* partition's row as it was.                                              *)
RunWithRoom ==
    /\ pc \in StepSet \cup {"done"}
    /\ WellFormedTable
    /\ request.shrink # NoShrink
    /\ DistinctGrows
    /\ ~GrowsNamed(request.shrink.value)
    /\ \A k \in 1..Len(request.grows) :
           \A p \in RowsNamed(PlannedOn, request.grows[k].value) :
               request.grows[k].size >= GetSize(p)
    /\ FitsWithoutShrink

C15_NoShrinkWhenRoom ==
    RunWithRoom =>
        /\ Len(plan) = Len(request.grows)
        /\ \A k \in 1..Len(plan) :
               /\ plan[k].original.label = request.grows[k].value
               /\ plan[k].target.size = request.grows[k].size
        /\ \A p \in RowsNamed(PlannedOn, request.shrink.value) : p \in RowsAt(Active, p.Index)

----------------------------------------------------------------------------
(* C16: when a request cannot be placed and no shrink partition is named,  *)
(* planResizes hands its caller an InsufficientSpaceError that carries the *)
(* label and the requested size of a request, and the table on disk is     *)
(* not changed.                                                            *)
AllFound == \A k \in 1..Len(request.grows) : FirstMatch(PlannedOn, request.grows[k]) # 0

NoRoomNoShrink ==
    /\ pc = "planned"
    /\ WellFormedTable
    /\ request.shrink = NoShrink
    /\ AllFound
    /\ ~FitsWithoutShrink

C16_InsufficientSpaceSurfaced ==
    NoRoomNoShrink =>
        /\ outcome.err = "InsufficientSpaceError"
        /\ \E k \in 1..Len(request.grows) :
               /\ outcome.label = request.grows[k].value
               /\ outcome.requested = request.grows[k].size
        /\ plan = << >>
        /\ gpt = gpt0

----------------------------------------------------------------------------
(* C17: calculateResizes returns InsufficientSpaceError(label, size) for   *)
(* the first request, in the order given, that no free block has room for *)
(* when it is handled, and then returns no action at all; when there is no *)
(* such request it returns one action for each request, in order.          *)

\* the free bytes after requests 1..k were handled, replayed from the requests
RECURSIVE FreeAfter(_)
FreeAfter(k) ==
    IF k = 0 THEN FreeAtStart
    ELSE LET free == FreeAfter(k - 1)
             size == request.grows[k].size
             o == OriginalOf(k)
             fits == FitStarts(free, size)
         IN IF size < GetSize(o)
            THEN free \cup ((GetStart(o) + size)..(GetStart(o) + GetSize(o) - 1))
            ELSE IF fits = {} THEN free
            ELSE LET b == CHOOSE b \in fits : \A c \in fits : b <= c
                 IN free \ (b..(b + size - 1))

NoRoomFor(k) ==
    /\ request.grows[k].size >= GetSize(OriginalOf(k))
    /\ FitStarts(FreeAfter(k - 1), request.grows[k].size) = {}

Calculated == pc = "calculated" /\ WellFormedTable /\ AllFound

C17_FirstUnplacedReported ==
    Calculated =>
        LET failing == {k \in 1..Len(request.grows) : NoRoomFor(k)} IN
        IF failing # {}
        THEN LET k == CHOOSE k \in failing : \A j \in failing : k <= j
             IN /\ outcome.err = "InsufficientSpaceError"
                /\ outcome.label = request.grows[k].value
                /\ outcome.requested = request.grows[k].size
                /\ plan = << >>
        ELSE /\ outcome.err = ""
             /\ Len(plan) = Len(request.grows)
             /\ \A k \in 1..Len(plan) :
                    /\ plan[k].original.label = request.grows[k].value
                    /\ plan[k].target.size = request.grows[k].size

\* the first request was placed, the second one has no room
C17_Witness ==
    /\ Calculated
    /\ Len(request.grows) = 2
    /\ request.grows[1].value # request.grows[2].value
    /\ request.grows[1].size >= GetSize(OriginalOf(1))
    /\ ~NoRoomFor(1)
    /\ NoRoomFor(2)
    /\ outcome.label = request.grows[2].value
    /\ plan = << >>

----------------------------------------------------------------------------
(* C18: when the requests need the shrink partition and its size is not    *)
(* more than the requested growth rounded up to GB, Run fails: it makes no *)
(* plan and changes nothing on the disk.                                   *)
ShrinkTooSmall ==
    /\ runs >= 1
    /\ WellFormedTable
    /\ request.shrink # NoShrink
    /\ DistinctGrows
    /\ ~GrowsNamed(request.shrink.value)
    /\ AllFound
    /\ FirstMatch(PlannedOn, request.shrink) # 0
    /\ ~FitsWithoutShrink
    /\ GetSize(PlannedOn[FirstMatch(PlannedOn, request.shrink)])
           <= NextGBMultiple(RequestedGrowth(request.grows, 1))

C18_FailsWhenShrinkTooSmall ==
    ShrinkTooSmall =>
        /\ pc = "failed"
        /\ outcome.err # ""
        /\ plan = << >>
        /\ gpt = startGpt
        /\ effects = NoEffects

\* the errors the run gives up on before it changes anything
FatalErrors == {"NoMatchingDisk", "UnsupportedFilesystem"}

\* C19: whenever a run fails with a partition that is not found or with a
\* filesystem it does not support, that run has committed no table, run no
\* external tool and written no partition data
C19_FatalBeforeMutation ==
    (pc = "failed" /\ outcome.err \in FatalErrors) =>
        /\ effects = NoEffects
        /\ gpt = startGpt

\* a grow request of the planner call names a label that more than one row of
\* the table carries
DuplicateLabelNamed ==
    /\ pc \in {"calculated", "planned"}
    /\ WellFormedTable
    /\ \E k \in 1..Len(request.grows) :
         Cardinality(RowsNamed(PlannedOn, request.grows[k].value)) > 1

\* C20: when a label named by a request is carried by more than one partition
\* of the disk, the operation returns an error and no plan
C20_DuplicateLabelFails ==
    DuplicateLabelNamed => outcome.err # "" /\ plan = << >>

----------------------------------------------------------------------------
(* Vocabulary of the disk probe properties *)

\* what an identifier is compared with in a record of the probe
FieldOf(p, by) ==
    CASE by = "name" -> p.name
      [] by = "label" -> p.label
      [] by = "uuid" -> p.uuid

EveryIdentifierMatched(d) ==
    \A k \in 1..Len(PartIdentifiers(request)) :
        \E i \in 1..Len(allDisks[d]) :
            FieldOf(allDisks[d][i], PartIdentifiers(request)[k].by)
                = PartIdentifiers(request)[k].value

Filtered == pc \in {"filtered", "planning", "failed"}

Selected == pc \in {"planning", "failed"}

(* C22: filterDisksByPartitions returns exactly the disks that have, for    *)
(* every identifier of the request (shrink and grows), a record that the    *)
(* identifier matches; Run goes on to the plan when and only when that is   *)
(* exactly one disk, and fails with an error otherwise.                     *)
C22_OneDiskSelected ==
    /\ Filtered => filteredDisks = {d \in DOMAIN allDisks : EveryIdentifierMatched(d)}
    /\ Selected => (pc = "planning" <=> Cardinality(filteredDisks) = 1)
    /\ pc = "failed" => outcome.err \in {"NoMatchingDisk", "AmbiguousDisk"}

\* two disks were probed, the request has two identifiers and one disk has both
C22_Witness ==
    /\ pc = "planning"
    /\ Cardinality(DOMAIN allDisks) = 2
    /\ Len(PartIdentifiers(request)) = 2
    /\ \E d \in DOMAIN allDisks : ~EveryIdentifierMatched(d)

\* the probe read the directory, not an image file
Enumerated == pc # "idle" /\ "disk.img" \notin DOMAIN allDisks

RecordInterval(r) == r.start..r.end

(* C23: every record of the probe has end = start + size - 1, the records   *)
(* read from the directory have start and size equal to the sectors of the  *)
(* entry times its logical block size, and the intervals [start, end] of    *)
(* the records of one disk are pairwise disjoint.                           *)
C23_RecordIntervals ==
    \A d \in DOMAIN allDisks :
        /\ \A i \in 1..Len(allDisks[d]) :
               allDisks[d][i].end = allDisks[d][i].start + allDisks[d][i].size - 1
        /\ \A i \in 1..Len(allDisks[d]) : \A j \in 1..Len(allDisks[d]) :
               i # j => RecordInterval(allDisks[d][i]) \cap RecordInterval(allDisks[d][j]) = {}
        /\ Enumerated =>
               \E e \in {sysBlock[n] : n \in 1..Len(sysBlock)} :
                   /\ e.name = d
                   /\ Len(e.parts) = Len(allDisks[d])
                   /\ \A i \in 1..Len(e.parts) :
                          /\ allDisks[d][i].start = e.parts[i].start * e.blockSize
                          /\ allDisks[d][i].size = e.parts[i].size * e.blockSize

\* what the entry has to be for its partitions to be reported
IsDiskEntry(e) ==
    /\ e.marker \notin {"partition", "loop", "dm", "comp_algorithm"}
    /\ e.name \notin RamNames

(* C24: of the directories of /sys/class/block that have partition          *)
(* children, the ones whose partitions are reported are exactly those that  *)
(* have no child named partition, loop, dm or comp_algorithm and whose own  *)
(* name does not begin with "ram".                                          *)
C24_DiskClassification ==
    Enumerated =>
        \A n \in 1..Len(sysBlock) :
            (sysBlock[n].isDir /\ sysBlock[n].parts # << >>) =>
                (sysBlock[n].name \in DOMAIN allDisks <=> IsDiskEntry(sysBlock[n]))

----------------------------------------------------------------------------
(* Vocabulary of the resolver properties *)

Resolved == pc \in {"resolved", "resolvedImage"}

\* the records findDisks gave the resolver
ResolverRecords ==
    IF pc = "resolved" THEN allDisks["sda"] ELSE imageRecords(Active)

\* the rows of the table that the identifier denotes
RowsDenoted(id) ==
    {i \in 1..Len(Active) :
        CASE id.by = "label" -> Active[i].Name = id.value
          [] id.by = "uuid" -> Active[i].GUID = id.value
          [] id.by = "name" ->
                \E n \in 1..Len(ResolverRecords) :
                    /\ ResolverRecords[n].name = id.value
                    /\ ResolverRecords[n].start = GetStart(Active[i])}

FirstDenoted(id) == Active[CHOOSE i \in RowsDenoted(id) : \A j \in RowsDenoted(id) : i <= j]

Unmatched == {k \in 1..Len(request.grows) : RowsDenoted(request.grows[k]) = {}}

(* C21: for each identifier, in the order given, the resolver returns the   *)
(* record of the row it denotes (by label, by GUID, or by the start of the  *)
(* kernel's partition of that name): the row's label, start, size,          *)
(* end = start + size - 1 and, as number, the row's slot in the table.  If  *)
(* an identifier denotes no row it returns no record and the error "could   *)
(* not find partition for identifier" with that identifier.                 *)
C21_ResolvedRecords ==
    Resolved =>
        IF Unmatched = {}
        THEN /\ outcome.err = ""
             /\ Len(plan) = Len(request.grows)
             /\ \A k \in 1..Len(plan) :
                    plan[k].original =
                        [label |-> FirstDenoted(request.grows[k]).Name,
                         size |-> GetSize(FirstDenoted(request.grows[k])),
                         start |-> GetStart(FirstDenoted(request.grows[k])),
                         end |-> GetStart(FirstDenoted(request.grows[k]))
                                    + GetSize(FirstDenoted(request.grows[k])) - 1,
                         number |-> FirstDenoted(request.grows[k]).Index]
        ELSE /\ outcome.err = "could not find partition for identifier"
             /\ plan = << >>
             /\ \E k \in Unmatched :
                    /\ \A j \in Unmatched : k <= j
                    /\ outcome.by = request.grows[k].by
                    /\ outcome.label = request.grows[k].value

----------------------------------------------------------------------------
(* Vocabulary of the block properties *)

BytesOf(list) == UNION {list[i].start..list[i].end : i \in 1..Len(list)}

SortedApart(list) ==
    \A i \in 1..Len(list) : \A j \in 1..Len(list) :
        i < j => list[i].end < list[j].start

NonEmptyBlocks(list) == \A i \in 1..Len(list) : list[i].start <= list[i].end

\* the input of computeUnused: used intervals inside the disk, sorted by start
\* and pairwise disjoint
UsedListGiven ==
    /\ pc = "unused"
    /\ SortedApart(inBlocks)
    /\ BytesOf(inBlocks) \subseteq 0..(diskSize - 1)

(* C25: for a disk of any size >= 1 and any list of used intervals sorted   *)
(* by start and pairwise disjoint (the empty list and lists that leave byte *)
(* 0 free included), computeUnused returns non-empty intervals, sorted and  *)
(* pairwise disjoint, whose union is the set of the bytes of [0, size - 1]  *)
(* that no used interval covers; none when the disk is covered.             *)
C25_UnusedIsComplement ==
    UsedListGiven =>
        /\ NonEmptyBlocks(outBlocks)
        /\ SortedApart(outBlocks)
        /\ BytesOf(outBlocks) = (0..(diskSize - 1)) \ BytesOf(inBlocks)
        /\ (BytesOf(inBlocks) = 0..(diskSize - 1)) => outBlocks = << >>

(* C26: for a list of blocks in any order, overlapping and nested ones      *)
(* included, the output of sortAndCombineUsableBlocks is sorted by start,   *)
(* covers the bytes of the input and no others, has no two blocks a before  *)
(* b with a.end + 1 >= b.start, and is returned as it is when the function  *)
(* is applied to it again.                                                  *)
C26_CombineCoalesces ==
    pc = "combined" =>
        /\ \A i \in 1..Len(outBlocks) : \A j \in 1..Len(outBlocks) :
               i < j => /\ outBlocks[i].start < outBlocks[j].start
                        /\ ~(outBlocks[i].end + 1 >= outBlocks[j].start)
        /\ BytesOf(outBlocks) = BytesOf(inBlocks)
        /\ sortAndCombineUsableBlocks(outBlocks) = outBlocks

\* three blocks out of order, one inside another, that combine to two
C26_Witness ==
    /\ pc = "combined"
    /\ Len(inBlocks) = 3
    /\ inBlocks[1].start > inBlocks[2].start
    /\ \E i \in 1..3 : \E j \in 1..3 :
           /\ i # j
           /\ inBlocks[i].start < inBlocks[j].start
           /\ inBlocks[j].end < inBlocks[i].end
    /\ Len(outBlocks) = 2

----------------------------------------------------------------------------
(* Vocabulary of the step properties *)

\* the step is the only one that ran, and it returned without error
RanOnly(step) == log = << step >>

MoveActions == {k \in 1..Len(plan) : plan[k].original.start # plan[k].target.start}

SlotChanges == {k \in 1..Len(plan) : plan[k].target.number # plan[k].original.number}

ShrinkActionsOf == {k \in 1..Len(plan) : plan[k].target.size < plan[k].original.size}

\* the row that was in the slot when the step started
RowBefore(n) == startGpt[PositionOf(startGpt, n)]

\* rows with the alternate label of the action's partition
AlternatesBefore(k) ==
    {p \in RowsNamed(startGpt, getAlternateLabel(plan[k].original.label)) : IsActive(p)}

\* such a row is where the plan puts the partition, with the planned size
AlreadyCreated(k) ==
    \E p \in AlternatesBefore(k) :
        GetStart(p) = plan[k].target.start /\ GetSize(p) = plan[k].target.size

\* the rows the step added
RowsAdded == {gpt[i] : i \in 1..Len(gpt)} \ {startGpt[i] : i \in 1..Len(startGpt)}

\* the new row of a move action, as the plan describes it
CreatedFor(k) ==
    {p \in RowsAdded :
        /\ p.Index = plan[k].target.number
        /\ GetStart(p) = plan[k].target.start
        /\ GetSize(p) = plan[k].target.size
        /\ p.Name = getAlternateLabel(plan[k].original.label)
        /\ p.Type = LinuxFilesystem
        /\ p.Attributes = RowBefore(plan[k].original.number).Attributes
        /\ p.GUID # RowBefore(plan[k].original.number).GUID
        /\ p.GUID # 0}

(* C27: createPartitions leaves out the row of a move action only when a    *)
(* row with the alternate label of the partition is already in the table    *)
(* at the planned target start with the planned target size; a row with     *)
(* that label of another size or at another place does not stop it from     *)
(* creating the row.                                                        *)
C27_SkipOnlyIfCreated ==
    RanOnly("createPartitions") =>
        \A k \in MoveActions :
            IF AlreadyCreated(k)
            THEN \A p \in RowsAdded : p.Index # plan[k].target.number
            ELSE CreatedFor(k) # {}

(* C28: on a table with no alternate row, createPartitions adds one row     *)
(* for every action whose start changes: in slot target.number, starting    *)
(* at byte target.start, of target.size bytes, labelled with the original   *)
(* label and the suffix "_resized2", of type Linux filesystem, with the     *)
(* original row's attributes and a GUID of its own.  It adds no other row   *)
(* and leaves the rows of the table as they are.                            *)
C28_CreatedRows ==
    (RanOnly("createPartitions") /\ \A k \in MoveActions : AlternatesBefore(k) = {}) =>
        /\ \A k \in MoveActions : Cardinality(CreatedFor(k)) = 1
        /\ Cardinality(RowsAdded) = Cardinality(MoveActions)
        /\ Len(gpt) = Len(startGpt) + Cardinality(MoveActions)
        /\ \A i \in 1..Len(startGpt) : \E j \in 1..Len(gpt) : gpt[j] = startGpt[i]

(* C29: shrinkPartitions gives the row in slot original.number of every     *)
(* action with target.size < original.size the size target.size and leaves  *)
(* every other row and every other field as they were, whatever the slots   *)
(* of the table are; it writes the table once, and not at all when no       *)
(* action shrinks.                                                          *)
C29_ShrinkBySlot ==
    RanOnly("shrinkPartitions") =>
        /\ Len(gpt) = Len(startGpt)
        /\ \A i \in 1..Len(startGpt) :
               gpt[i] =
                   IF \E k \in ShrinkActionsOf : plan[k].original.number = startGpt[i].Index
                   THEN [startGpt[i] EXCEPT !.Size =
                            plan[CHOOSE k \in ShrinkActionsOf :
                                     plan[k].original.number = startGpt[i].Index].target.size]
                   ELSE startGpt[i]
        /\ effects.commits = IF ShrinkActionsOf = {} THEN 0 ELSE 1

(* C30: removePartitions marks as unused the rows in the slots              *)
(* original.number of the actions with target.number # original.number and  *)
(* no other row; it deletes no row and changes no start, size or label, so  *)
(* the number of partitions in use goes down by the number of such actions. *)
C30_RemoveMarksUnused ==
    RanOnly("removePartitions") =>
        /\ Len(gpt) = Len(startGpt)
        /\ \A i \in 1..Len(startGpt) :
               gpt[i] =
                   IF \E k \in SlotChanges : plan[k].original.number = startGpt[i].Index
                   THEN [startGpt[i] EXCEPT !.Type = Unused]
                   ELSE startGpt[i]
        /\ Len(Active) = Len(GetPartitionTable(startGpt)) - Cardinality(SlotChanges)

\* a plan that shrinks one partition in place and moves another was removed
C30_Witness ==
    /\ RanOnly("removePartitions")
    /\ Len(plan) = 2
    /\ Cardinality(SlotChanges) = 1
    /\ Cardinality(ShrinkActionsOf) = 1
    /\ Len(Active) = Len(startGpt) - 1

----------------------------------------------------------------------------
(* The raw copy of one partition (copyFilesystems of resize.go): the       *)
(* producer goroutine reads the source slot into the write end of a pipe,  *)
(* the calling goroutine reads the other end into the destination slot.    *)
(* A pipe write blocks until the chunk is taken; a pipe read blocks until  *)
(* a chunk is offered or the write end is closed.                          *)

\* the largest source slot, in chunks of one physical sector
MaxChunks == 3

\* the state of everything but the copy and the filesystem shrink, at rest
RestIdle ==
    /\ diskSize = 0
    /\ inBlocks = << >>
    /\ outBlocks = << >>
    /\ sysBlock = << >>
    /\ allDisks = << >>
    /\ filteredDisks = {}
    /\ gpt = << >>
    /\ request = [grows |-> << >>, shrink |-> NoShrink, dryRun |-> TRUE]
    /\ fsys = [n \in 1..MaxIndex |-> NoFs]
    /\ fsys0 = fsys
    /\ pc = "idle"
    /\ plan = << >>
    /\ runs = 0
    /\ guidCtr = 0
    /\ gpt0 = gpt
    /\ startGpt = gpt
    /\ committed = gpt
    /\ log = << >>
    /\ failedAt = "none"
    /\ effects = NoEffects
    /\ interrupted = "none"
    /\ outcome = NoOutcome

RestFrame ==
    UNCHANGED << gpt, fsys, request, pc, plan, runs, guidCtr, gpt0, fsys0,
                 startGpt, committed, log, failedAt, effects, interrupted,
                 outcome, sysBlock, allDisks, filteredDisks, diskSize,
                 inBlocks, outBlocks >>

\* the verdict of the copy once the consumer returned without a fatal error
\* and the producer's result was received
copyVerdict_IgnoreReadError(readData, written) ==
    IF readData.count # written THEN "Mismatch" ELSE "ok"

copyVerdict(readData, written) ==
    IF readData.err THEN "ReadFailed"
    ELSE IF readData.count # written THEN "Mismatch"
    ELSE "ok"

\* the pipe and the channel are created and the producer is started; the
\* destination slot is at least as large as the source slot
CopierInit ==
    /\ RestIdle
    /\ fsShrink = NotShrinking
    /\ \E size \in 1..MaxChunks : \E room \in 0..1 :
           rawCopy = [phase |-> "copy", size |-> size, cap |-> size + room,
                      prod |-> "readAt", cons |-> "pipeRead",
                      offered |-> FALSE, wClosed |-> FALSE,
                      read |-> 0, written |-> 0,
                      prodErr |-> FALSE, consErr |-> "none",
                      ch |-> << >>, result |-> "none"]

\* ReadPartitionContents: the producer reads the next chunk of the source
\* slot, or the read fails and it returns the count so far with the error
ProducerReadAt ==
    /\ rawCopy.phase = "copy"
    /\ rawCopy.prod = "readAt"
    /\ \/ rawCopy' = [rawCopy EXCEPT !.prod = "pipeWrite", !.offered = TRUE]
       \/ rawCopy' = [rawCopy EXCEPT !.prod = "send", !.prodErr = TRUE]
    /\ RestFrame /\ UNCHANGED fsShrink

\* the producer's pipe write returns once the consumer took the chunk
ProducerPipeWrite ==
    /\ rawCopy.phase = "copy"
    /\ rawCopy.prod = "pipeWrite"
    /\ ~rawCopy.offered
    /\ rawCopy' = [rawCopy EXCEPT
                       !.read = @ + 1,
                       !.prod = IF rawCopy.read + 1 >= rawCopy.size
                                THEN "send" ELSE "readAt"]
    /\ RestFrame /\ UNCHANGED fsShrink

\* ch <- copyData{count, err}: the channel has room for one value
ProducerSend ==
    /\ rawCopy.phase = "copy"
    /\ rawCopy.prod = "send"
    /\ rawCopy' = [rawCopy EXCEPT
                       !.ch = << [count |-> rawCopy.read, err |-> rawCopy.prodErr] >>,
                       !.prod = "close"]
    /\ RestFrame /\ UNCHANGED fsShrink

\* the deferred pw.Close()
ProducerClose ==
    /\ rawCopy.phase = "copy"
    /\ rawCopy.prod = "close"
    /\ rawCopy' = [rawCopy EXCEPT !.wClosed = TRUE, !.prod = "exited"]
    /\ RestFrame /\ UNCHANGED fsShrink

\* WritePartitionContents: the consumer takes an offered chunk from the pipe,
\* or sees the end of the data once the write end is closed; at the end a
\* destination that is not full gives the incomplete-write error
ConsumerPipeRead ==
    /\ rawCopy.phase = "copy"
    /\ rawCopy.cons = "pipeRead"
    /\ \/ /\ rawCopy.offered
          /\ rawCopy' = [rawCopy EXCEPT !.offered = FALSE, !.cons = "writeAt"]
       \/ /\ ~rawCopy.offered
          /\ rawCopy.wClosed
          /\ rawCopy' = [rawCopy EXCEPT
                             !.cons = "check",
                             !.consErr = IF rawCopy.written # rawCopy.cap
                                         THEN "incomplete" ELSE "none"]
    /\ RestFrame /\ UNCHANGED fsShrink

\* the consumer writes the chunk to the destination slot, or the write fails
\* and WritePartitionContents returns the error
ConsumerWriteAt ==
    /\ rawCopy.phase = "copy"
    /\ rawCopy.cons = "writeAt"
    /\ \/ rawCopy' = [rawCopy EXCEPT !.written = @ + 1, !.cons = "pipeRead"]
       \/ rawCopy' = [rawCopy EXCEPT !.consErr = "io", !.cons = "check"]
    /\ RestFrame /\ UNCHANGED fsShrink

\* err != nil && !errors.As(err, &ierr): a fatal write error returns at once
CheckWritten ==
    /\ rawCopy.phase = "copy"
    /\ rawCopy.cons = "check"
    /\ rawCopy' = IF rawCopy.consErr = "io"
                  THEN [rawCopy EXCEPT !.cons = "returned", !.result = "WriteFailed"]
                  ELSE [rawCopy EXCEPT !.cons = "recv"]
    /\ RestFrame /\ UNCHANGED fsShrink

\* readData := <-ch and the two checks on it
ReceiveRead ==
    /\ rawCopy.phase = "copy"
    /\ rawCopy.cons = "recv"
    /\ rawCopy.ch # << >>
    /\ rawCopy' = [rawCopy EXCEPT
                       !.ch = << >>,
                       !.cons = "returned",
                       !.result = copyVerdict(rawCopy.ch[1], rawCopy.written)]
    /\ RestFrame /\ UNCHANGED fsShrink

CopierNext ==
    \/ ProducerReadAt
    \/ ProducerPipeWrite
    \/ ProducerSend
    \/ ProducerClose
    \/ ConsumerPipeRead
    \/ ConsumerWriteAt
    \/ CheckWritten
    \/ ReceiveRead

CopierSpec == CopierInit /\ [][CopierNext]_vars

\* a side of the copy is blocked on the pipe
ProducerBlocked == rawCopy.prod = "pipeWrite" /\ rawCopy.offered
ConsumerBlocked ==
    rawCopy.cons = "pipeRead" /\ ~rawCopy.offered /\ ~rawCopy.wClosed
CopyReturned == rawCopy.cons = "returned"

\* C31: when the copy has returned, neither side is left blocked on the
\* pipe: the producer is not waiting in a pipe write and the consumer is
\* not waiting in a pipe read
C31_NoSideLeftBlocked ==
    CopyReturned => ~ProducerBlocked /\ ~ConsumerBlocked

\* C32: the copy reports success only if the producer finished without an
\* error, the consumer finished without an error other than the incomplete
\* write of a larger destination, and the count written equals the count
\* read; a returned copy whose counts differ did not report success
C32_SuccessMeansEqualCounts ==
    /\ rawCopy.result = "ok" =>
           /\ ~rawCopy.prodErr
           /\ rawCopy.prod \in {"close", "exited"}
           /\ rawCopy.consErr \in {"none", "incomplete"}
           /\ rawCopy.read = rawCopy.written
           /\ rawCopy.read = rawCopy.size
    /\ (CopyReturned /\ rawCopy.read # rawCopy.written) => rawCopy.result # "ok"

C32_Witness ==
    /\ rawCopy.result = "ok"
    /\ rawCopy.consErr = "incomplete"
    /\ rawCopy.written = rawCopy.size
    /\ rawCopy.size > 1

----------------------------------------------------------------------------
(* The shrink of one ext4 filesystem (resizeFilesystem and execResize2fs   *)
(* of run_helpers.go), byte by byte.  The disk is a sequence of bytes, the *)
(* byte at offset o being element o + 1; a byte of the original disk holds *)
(* its own position, a byte an external tool rewrote holds 0.              *)

\* the largest filesystem, in bytes, and the bytes of the disk around it
MaxFsBytes == 4
ImageBytes == MaxFsBytes + 2

\* execResize2fs: the flag given to the checker
fixFlag_AlwaysFix(fixErrors) == "-y"

fixFlag(fixErrors) == IF fixErrors THEN "-y" ELSE "-n"

\* the file the tools are run on: the device itself, or the temporary file
ToolTarget(deviceType) == IF deviceType = "block" THEN "device" ELSE "tmp"

Smaller(a, b) == IF a <= b THEN a ELSE b
Larger(a, b) == IF a >= b THEN a ELSE b

\* bytes [offset, offset + length) of a file, as far as the file goes
ReadRange(file, offset, length) ==
    SubSeq(file, offset + 1, Smaller(offset + length, Len(file)))

\* the file with data written at the offset
WriteRange(file, offset, data) ==
    [i \in 1..Larger(Len(file), offset + Len(data)) |->
        IF i > offset /\ i <= offset + Len(data) THEN data[i - offset]
        ELSE file[i]]

\* what a tool may leave of the file it ran on: the filesystem's bytes
\* rewritten or not, the file cut to the filesystem's size or not
RewrittenBytes(file, fsBytes) ==
    [i \in 1..Len(file) |-> IF i <= fsBytes THEN 0 ELSE file[i]]

ToolOutcomes(file, fsBytes) ==
    { file, RewrittenBytes(file, fsBytes),
      SubSeq(file, 1, Smaller(fsBytes, Len(file))),
      SubSeq(RewrittenBytes(file, fsBytes), 1, Smaller(fsBytes, Len(file))) }

ShrinkInit ==
    /\ RestIdle
    /\ rawCopy = NotCopying
    /\ \E deviceType \in {"block", "file", "unknown", "error"} :
       \E start \in 0..1 : \E size \in 2..MaxFsBytes : \E newSize \in 1..(size - 1) :
       \E fixErrors \in BOOLEAN :
           fsShrink = [phase |-> "shrink", deviceType |-> deviceType,
                       filesystemData |-> [start |-> start, size |-> size],
                       delta |-> newSize - size, fixErrors |-> fixErrors,
                       image |-> [i \in 1..ImageBytes |-> i],
                       tmp |-> << >>, at |-> "open", calls |-> << >>,
                       copied |-> 0, err |-> ""]

ShrinkFrame == RestFrame /\ UNCHANGED rawCopy

\* os.Open, disk.DetermineDeviceType and the switch on the device type
OpenDevice ==
    /\ fsShrink.phase = "shrink"
    /\ fsShrink.at = "open"
    /\ fsShrink' =
         CASE fsShrink.deviceType = "error" ->
                  [fsShrink EXCEPT !.at = "returned", !.err = "OpenFailed"]
           [] fsShrink.deviceType = "unknown" ->
                  [fsShrink EXCEPT !.at = "returned", !.err = "UnknownDeviceType"]
           [] fsShrink.deviceType = "block" -> [fsShrink EXCEPT !.at = "check"]
           [] fsShrink.deviceType = "file" -> [fsShrink EXCEPT !.at = "createTemp"]
    /\ ShrinkFrame

\* os.CreateTemp
CreateTemp ==
    /\ fsShrink.phase = "shrink"
    /\ fsShrink.at = "createTemp"
    /\ \/ fsShrink' = [fsShrink EXCEPT !.at = "copyOut"]
       \/ fsShrink' = [fsShrink EXCEPT !.at = "returned", !.err = "CreateTempFailed"]
    /\ ShrinkFrame

\* CopyRange(device, tmp, start, 0, size): the image is only read
CopyOut ==
    /\ fsShrink.phase = "shrink"
    /\ fsShrink.at = "copyOut"
    /\ LET d == fsShrink.filesystemData
           data == ReadRange(fsShrink.image, d.start, d.size)
       IN \/ fsShrink' = [fsShrink EXCEPT !.tmp = data, !.at = "check"]
          \/ \E k \in 0..(Len(data) - 1) :
                 fsShrink' = [fsShrink EXCEPT !.tmp = SubSeq(data, 1, k),
                                              !.at = "returned",
                                              !.err = "CopyToTempFailed"]
    /\ ShrinkFrame

\* e2fsck -f with the flag: read-only it leaves the file alone
RunChecker ==
    /\ fsShrink.phase = "shrink"
    /\ fsShrink.at = "check"
    /\ LET flag == fixFlag(fsShrink.fixErrors)
           target == ToolTarget(fsShrink.deviceType)
           d == fsShrink.filesystemData
       IN \E ok \in BOOLEAN :
          \E after \in IF flag = "-y" /\ target = "tmp"
                       THEN {fsShrink.tmp, RewrittenBytes(fsShrink.tmp, d.size)}
                       ELSE {fsShrink.tmp} :
              fsShrink' = [fsShrink EXCEPT
                  !.calls = Append(@, [tool |-> "e2fsck", flag |-> flag,
                                       sizeMB |-> 0, target |-> target, ok |-> ok]),
                  !.tmp = after,
                  !.at = IF ok THEN "resize" ELSE "returned",
                  !.err = IF ok THEN "" ELSE "e2fsckFailed"]
    /\ ShrinkFrame

\* resize2fs with the new size in MB, which fails when asked for no MB at
\* all; on the device the function returns
RunResizer ==
    /\ fsShrink.phase = "shrink"
    /\ fsShrink.at = "resize"
    /\ LET target == ToolTarget(fsShrink.deviceType)
           mb == newSizeMB(fsShrink.filesystemData, fsShrink.delta)
       IN \E ok \in IF mb > 0 THEN BOOLEAN ELSE {FALSE} :
          \E after \in IF target = "tmp" THEN ToolOutcomes(fsShrink.tmp, mb * MB)
                       ELSE {fsShrink.tmp} :
              fsShrink' = [fsShrink EXCEPT
                  !.calls = Append(@, [tool |-> "resize2fs", flag |-> "",
                                       sizeMB |-> mb, target |-> target, ok |-> ok]),
                  !.tmp = after,
                  !.at = IF ~ok \/ target = "device" THEN "returned" ELSE "copyBack",
                  !.err = IF ok THEN "" ELSE "resize2fsFailed"]
    /\ ShrinkFrame

\* CopyRange(tmp, device, 0, start, newSize): the loop ends at the length
\* asked for or at the end of the temporary file; a failed write leaves the
\* bytes written before it
CopyBack ==
    /\ fsShrink.phase = "shrink"
    /\ fsShrink.at = "copyBack"
    /\ LET d == fsShrink.filesystemData
           newSize == d.size + fsShrink.delta
           data == ReadRange(fsShrink.tmp, 0, newSize)
       IN \/ fsShrink' = [fsShrink EXCEPT
                  !.image = WriteRange(@, d.start, data),
                  !.copied = Len(data), !.at = "returned", !.err = ""]
          \/ \E k \in 0..(Len(data) - 1) :
                 fsShrink' = [fsShrink EXCEPT
                     !.image = WriteRange(@, d.start, SubSeq(data, 1, k)),
                     !.copied = k, !.at = "returned", !.err = "CopyBackFailed"]
    /\ ShrinkFrame

ShrinkNext ==
    \/ OpenDevice
    \/ CreateTemp
    \/ CopyOut
    \/ RunChecker
    \/ RunResizer
    \/ CopyBack

ShrinkSpec == ShrinkInit /\ [][ShrinkNext]_vars

ToolCalls == fsShrink.calls
ShrinkReturned == fsShrink.at = "returned"
NewSize == fsShrink.filesystemData.size + fsShrink.delta

\* C34: the tools are invoked in the order checker, resizer: the checker is
\* first, with -n exactly when fix_errors is false and -y otherwise; the
\* resizer runs only after a checker that succeeded, with the size
\* floor((original_size + delta) / MB) in MB; a failure of either tool is
\* the error the shrink returns, and no tool runs after a failed one
C34_CheckerThenResizer ==
    /\ Len(ToolCalls) <= 2
    /\ Len(ToolCalls) >= 1 =>
           /\ ToolCalls[1].tool = "e2fsck"
           /\ ToolCalls[1].flag = "-n" <=> ~fsShrink.fixErrors
           /\ ToolCalls[1].flag = "-y" <=> fsShrink.fixErrors
    /\ Len(ToolCalls) = 2 =>
           /\ ToolCalls[2].tool = "resize2fs"
           /\ ToolCalls[1].ok
           /\ \E q \in 0..MaxFsBytes :
                  /\ q * MB <= NewSize /\ NewSize < (q + 1) * MB
                  /\ ToolCalls[2].sizeMB = q
    /\ \A i \in 1..Len(ToolCalls) :
           ~ToolCalls[i].ok =>
               /\ i = Len(ToolCalls)
               /\ ShrinkReturned
               /\ fsShrink.err = IF ToolCalls[i].tool = "e2fsck"
                                 THEN "e2fsckFailed" ELSE "resize2fsFailed"
    /\ (fsShrink.at = "resize") => (Len(ToolCalls) = 1 /\ ToolCalls[1].ok)

C34_Witness ==
    /\ Len(ToolCalls) = 2
    /\ ~fsShrink.fixErrors
    /\ NewSize = 3
    /\ ~ToolCalls[2].ok
    /\ ShrinkReturned

\* C35: on an image file the tools run on the temporary file only; image
\* bytes outside [start, start + new_size) are never modified; when a tool
\* fails the image is unchanged and the tool's error is returned; a shrink
\* that returned without error copied exactly new_size bytes back
C35_ImageFrame ==
    fsShrink.deviceType = "file" =>
        /\ \A i \in 1..Len(ToolCalls) : ToolCalls[i].target = "tmp"
        /\ Len(fsShrink.image) = ImageBytes
        /\ \A i \in 1..ImageBytes :
               (i <= fsShrink.filesystemData.start
                  \/ i > fsShrink.filesystemData.start + NewSize)
               => fsShrink.image[i] = i
        /\ (\E i \in 1..Len(ToolCalls) : ~ToolCalls[i].ok) =>
               /\ fsShrink.image = [i \in 1..ImageBytes |-> i]
               /\ fsShrink.err \in {"e2fsckFailed", "resize2fsFailed"}
        /\ (ShrinkReturned /\ fsShrink.err = "") => fsShrink.copied = NewSize

----------------------------------------------------------------------------
(* The copy step on its own (copyFilesystems of resize.go after            *)
(* createPartitions wrote the new rows): plans whose actions carry the     *)
(* slot of the partition they name, as TestCopyFilesystems builds them,    *)
(* on slots that hold any kind of filesystem.                              *)

CopyKinds == {"ext4", "fat32", "squashfs", "unknown", "iso9660"}

\* the filesystems of the three rows: kind k[i] on row i, with a volume
\* label of its own
CopyFs(table, k) ==
    [n \in 1..MaxIndex |->
        IF HasIndex(table, n)
        THEN LET i == PositionOf(table, n)
             IN [kind |-> k[i],
                 tag |-> IF i = 1 THEN "v1" ELSE IF i = 2 THEN "v2" ELSE "v3",
                 size |-> table[i].Size]
        ELSE NoFs]

\* plans of one or two actions: a partition moved to a larger slot after
\* the last partition, alone, after a second move or after an action that
\* leaves its partition where it is
CopyPlans(table) ==
    LET move(i, start, number) ==
            MoveAction(table, i, start, GetSize(table[i]) + LogicalSectorSize, number)
        first == {move(i, FreeFrom(table), LowestFree(SlotsUsed(table))) :
                     i \in 1..Len(table)}
        second(a) == {move(i, a.target.end + 1,
                           LowestFree(SlotsUsed(table) \cup {a.target.number})) :
                         i \in {k \in 1..Len(table) : table[k].Index # a.original.number}}
        stay(a) == {ShrinkAction(table, i, GetSize(table[i])) :
                       i \in {k \in 1..Len(table) : table[k].Index # a.original.number}}
    IN {<< a >> : a \in first}
         \cup UNION {{<< a, b >> : b \in second(a)} : a \in first}
         \cup UNION {{<< b, a >> : b \in stay(a)} : a \in first}

CopyInit ==
    /\ \E x \in StepLayouts : \E slots \in PlannerSlots :
       \E k \in [1..3 -> CopyKinds] :
         LET table == PlannerTable(x, slots, << "p1", "p2", "p3" >>)
         IN \E resizes \in CopyPlans(table) :
              /\ plan = resizes
              /\ gpt = WriteTable(createPartitionsTable(table, resizes).table, 0)
              /\ fsys = CopyFs(table, k)
    /\ pc = "copyFilesystems"
    /\ request = [grows |-> << >>, shrink |-> NoShrink, dryRun |-> FALSE]
    /\ fsys0 = fsys
    /\ sysBlock = << >>
    /\ allDisks = << >>
    /\ filteredDisks = {}
    /\ diskSize = 0
    /\ inBlocks = << >>
    /\ outBlocks = << >>
    /\ rawCopy = NotCopying
    /\ fsShrink = NotShrinking
    /\ runs = 1
    /\ guidCtr = 0
    /\ gpt0 = gpt
    /\ startGpt = gpt
    /\ committed = gpt
    /\ log = << >>
    /\ failedAt = "none"
    /\ effects = NoEffects
    /\ interrupted = "none"
    /\ outcome = NoOutcome

CopyNext == CopyFilesystems

CopySpec == CopyInit /\ [][CopyNext]_vars

\* the actions of the plan that move their partition
Moved == {i \in 1..Len(plan) : plan[i].original.start # plan[i].target.start}

\* the kind of filesystem the source slot of action i held before the step
SourceKind(i) == fsys0[plan[i].original.number].kind

CopySucceeded == log = << "copyFilesystems" >>
CopyStepFailed == failedAt = "copyFilesystems"

----------------------------------------------------------------------------
\* the bytes a row occupies on the disk: from its first sector, its size
OccupiedBytes(p) == GetStart(p)..(GetStart(p) + GetSize(p) - 1)

RowsApart(table) ==
    /\ \A i \in 1..Len(table) : OccupiedBytes(table[i]) \subseteq 0..(DiskSize - 1)
    /\ \A i \in 1..Len(table) : \A j \in 1..Len(table) :
           i # j => OccupiedBytes(table[i]) \cap OccupiedBytes(table[j]) = {}

----------------------------------------------------------------------------
\* the rows of a table in the slot where the first table had the named row
RowsInSlotOf(table, name) ==
    {p \in {table[i] : i \in 1..Len(table)} :
        \E q \in RowsNamed(GetPartitionTable(gpt0), name) : q.Index = p.Index}

\* the smallest size one shrink for the request leaves to the shrink partition
ShrinkFloor ==
    LET q == CHOOSE r \in RowsNamed(GetPartitionTable(gpt0), request.shrink.value) : TRUE
    IN GetSize(q) - RoundUpGB(RequestedGrowth(request.grows, 1))

\* every request asks for at least the size its partition had at first
RequestsGrow ==
    \A k \in 1..Len(request.grows) :
        \A q \in RowsNamed(GetPartitionTable(gpt0), request.grows[k].value) :
            request.grows[k].size >= GetSize(q)

----------------------------------------------------------------------------
\* no two rows of the table carry the same label or the same partition GUID
UniqueIdentities(table) ==
    \A i \in 1..Len(table) : \A j \in 1..Len(table) :
        i # j => table[i].Name # table[j].Name /\ table[i].GUID # table[j].GUID

\* C38: from a first table with unique labels and partition GUIDs, every
\* table the executor committed has unique labels and unique partition
\* GUIDs among its rows in use
C38_UniqueIdentities ==
    UniqueIdentities(GetPartitionTable(gpt0)) =>
        UniqueIdentities(GetPartitionTable(committed))

----------------------------------------------------------------------------
(* The sectors that hold the partition table itself: the protective MBR    *)
(* and the primary GPT before the first usable sector, the backup GPT      *)
(* after the last usable one.  On the disks here each takes one sector.    *)

FirstUsableSector == 1
LastUsableSector == DiskSectors - 2

ReservedBytes ==
    (0..(FirstUsableSector * LogicalSectorSize - 1))
        \cup (((LastUsableSector + 1) * LogicalSectorSize)..(DiskSize - 1))

\* the partitions the plan was made from keep clear of the reserved sectors
TableInUsableArea ==
    \A b \in OriginalBlocks : Interval(b) \cap ReservedBytes = {}

\* C39: in a plan made from a table whose partitions keep clear of the
\* sectors reserved for the partition table, no action that grows or moves
\* a partition has a target with a byte in those sectors
C39_TargetsAvoidTable ==
    (PlannedRequest /\ TableInUsableArea) =>
        \A i \in 1..Len(plan) :
            plan[i].target.start # plan[i].original.start
                => Interval(plan[i].target) \cap ReservedBytes = {}

----------------------------------------------------------------------------
\* every partition the request names is in the table the plan is made from
RequestResolves ==
    /\ \A k \in 1..Len(request.grows) :
           FirstMatch(GetPartitionTable(gpt), request.grows[k]) # 0
    /\ request.shrink # NoShrink
    /\ FirstMatch(GetPartitionTable(gpt), request.shrink) # 0

\* the shrink partition is larger than the requested growth rounded up to GB
ShrinkSuffices ==
    LET table == GetPartitionTable(gpt)
    IN GetSize(table[FirstMatch(table, request.shrink)])
           > RoundUpGB(RequestedGrowth(request.grows, 1))

\* C40: planResizes, given a shrink partition larger than the sum of the
\* requested sizes rounded up to GB, returns a plan with an action for every
\* request and no error, whatever the gaps of the table and the order of
\* the requests
C40_PlanWithSufficientShrink ==
    (pc = "planned" /\ RequestResolves /\ ShrinkSuffices) =>
        /\ outcome.err = ""
        /\ Len(plan) >= Len(request.grows)
        /\ \A k \in 1..Len(request.grows) :
               \E i \in 1..Len(plan) :
                   /\ plan[i].original.label = request.grows[k].value
                   /\ plan[i].target.size = request.grows[k].size

\* a plan that needed the shrink, with one request placed in a gap before
\* the shrink partition and one in the tail it frees
C40_Witness ==
    /\ pc = "planned" /\ RequestResolves /\ ShrinkSuffices
    /\ Len(request.grows) = 2
    /\ DistinctGrows
    /\ Len(plan) = 3
    /\ plan[2].target.start # plan[2].original.start
    /\ plan[2].target.start < plan[1].original.start
    /\ plan[3].target.start > plan[1].target.end
    /\ plan[3].target.end <= plan[1].original.end

====
